---- MODULE Spec2Model ----
(***************************************************************************)
(* Model of data_preparation/language_intelligence/spacy_classifier.py:    *)
(* one SentenceClassifier instance, its lazily built lookup tables, and    *)
(* the calls sentence(), classification(), sentence_difficulty(),          *)
(* get_max_word_rank(), get_average_word_rank(), visualise() and the       *)
(* lookup methods.  The spaCy pipeline, the wordfreq list, the cefrpy      *)
(* dictionary and the names CSV are external: they appear as small fixed   *)
(* tables over a vocabulary chosen to cover every branch of the code.      *)
(***************************************************************************)
EXTENDS Integers, Sequences, FiniteSets, TLC

\* ------------------------------------------------------------------ bounds

\* Longest sentence built from arbitrary tokens of CoreTokens.
MaxLen == 2
\* Longest run of one repeated token at the head of a long sentence.
MaxRep == 36
\* Longest tail, a run of one other token, after such a run.
MaxTail == 0

\* The most sentences the evaluation harness is given.
MaxSentences == 11

\* The rows of the dataframe given to the topic classifier, its largest
\* batch_size and max_passes.
MaxRows == 4

MaxBatchSize == 2

MaxPasses == 2

\* The most rows of the input file of filter_by_name_limits().
MaxLines == 4

\* The largest rank given to get_cefr_from_rank(): one past the 20000 of the
\* frequency list.
MaxRank == 20001

\* The most words, and the most tallied tokens, of the counts given to the
\* level loop.
MaxWords == 13

MaxTally == 3

\* ------------------------------------------------------------- CEFR levels

\* Python's None where the other values are strings.
None == "None"

\* An optional value of any other type: no value, or one.
Nothing == <<>>

Some(x) == <<x>>

IsNothing(o) == Len(o) = 0

Get(o) == o[1]

\* cefr_order / cefr_levels: the six levels, easiest first.
cefr_levels == <<"A1", "A2", "B1", "B2", "C1", "C2">>

Levels == {cefr_levels[i] : i \in 1..Len(cefr_levels)}

\* list.index(level)
Index(level) == CHOOSE i \in 1..Len(cefr_levels) : cefr_levels[i] = level

Max2(a, b) == IF a >= b THEN a ELSE b

\* ------------------------------------------------------- module constants

HARDCODED_CEFR_LEVELS ==
    (<<"'", "s">> :> "A2") @@
    (<<"'", "v", "e">> :> "A2") @@
    (<<"n", "'", "t">> :> "A2") @@
    (<<"'", "m">> :> "A2") @@
    (<<"'", "l", "l">> :> "A2") @@
    (<<"'", "r", "e">> :> "A2") @@
    (<<"'", "d">> :> "A2") @@
    (<<"a", ".", "m", ".">> :> "B1") @@
    (<<"p", ".", "m", ".">> :> "B1") @@
    (<<"-">> :> "B1")

LevelLimits(a1, a2, b1, b2, c1, c2) ==
    ("A1" :> a1) @@ ("A2" :> a2) @@ ("B1" :> b1) @@
    ("B2" :> b2) @@ ("C1" :> c1) @@ ("C2" :> c2)

LevelConfig(with_stops, without_stops, limits) ==
    [max_words_with_stops |-> with_stops,
     max_words_without_stops |-> without_stops,
     level_limits |-> limits]

DEFAULT_DIFFICULTY_CONFIG ==
    ("A1" :> LevelConfig(11, 9, LevelLimits(-1, 0, 0, 0, 0, 0))) @@
    ("A2" :> LevelConfig(16, 13, LevelLimits(-1, -1, 0, 0, 0, 0))) @@
    ("B1" :> LevelConfig(20, 15, LevelLimits(-1, -1, -1, 0, 0, 0))) @@
    ("B2" :> LevelConfig(25, 20, LevelLimits(-1, -1, -1, -1, 0, 0))) @@
    ("C1" :> LevelConfig(30, 25, LevelLimits(-1, -1, -1, -1, -1, 0))) @@
    ("C2" :> LevelConfig(-1, -1, LevelLimits(-1, -1, -1, -1, -1, -1)))

\* Mutant of APPROX_CEFR_LEVEL_CONFIG: the A1 row admits ten words, not twelve.
APPROX_CEFR_LEVEL_CONFIG_A1_of_ten_words ==
    ("A1" :> LevelConfig(10, 10, LevelLimits(-1, 1, 0, 0, 0, 0))) @@
    ("A2" :> LevelConfig(16, 13, LevelLimits(-1, -1, 1, 1, 0, 0))) @@
    ("B1" :> LevelConfig(20, 15, LevelLimits(-1, -1, -1, 2, 1, 1))) @@
    ("B2" :> LevelConfig(25, 20, LevelLimits(-1, -1, -1, -1, 1, 1))) @@
    ("C1" :> LevelConfig(30, 25, LevelLimits(-1, -1, -1, -1, -1, 2))) @@
    ("C2" :> LevelConfig(-1, -1, LevelLimits(-1, -1, -1, -1, -1, -1)))

APPROX_CEFR_LEVEL_CONFIG ==
    ("A1" :> LevelConfig(12, 10, LevelLimits(-1, 1, 0, 0, 0, 0))) @@
    ("A2" :> LevelConfig(16, 13, LevelLimits(-1, -1, 1, 1, 0, 0))) @@
    ("B1" :> LevelConfig(20, 15, LevelLimits(-1, -1, -1, 2, 1, 1))) @@
    ("B2" :> LevelConfig(25, 20, LevelLimits(-1, -1, -1, -1, 1, 1))) @@
    ("C1" :> LevelConfig(30, 25, LevelLimits(-1, -1, -1, -1, -1, 2))) @@
    ("C2" :> LevelConfig(-1, -1, LevelLimits(-1, -1, -1, -1, -1, -1)))

\* ------------------------------------------- configs a caller may supply
\* sentence_difficulty(config) takes any dict.  Besides the two presets the
\* model supplies three tables of the caller's own.

\* Every level limited, C2 included, and the rows not ordered by strictness.
CUSTOM_CONFIG ==
    ("A1" :> LevelConfig(1, 1, LevelLimits(-1, 0, 0, 0, 0, 0))) @@
    ("A2" :> LevelConfig(3, 3, LevelLimits(-1, -1, 1, 0, 0, 0))) @@
    ("B1" :> LevelConfig(2, -1, LevelLimits(-1, -1, -1, 0, 0, 0))) @@
    ("B2" :> LevelConfig(3, 2, LevelLimits(1, -1, -1, -1, 1, 1))) @@
    ("C1" :> LevelConfig(2, 2, LevelLimits(-1, -1, -1, -1, -1, -1))) @@
    ("C2" :> LevelConfig(4, -1, LevelLimits(-1, -1, -1, -1, -1, 1)))

\* A1 has a ceiling no count can respect; the other rows are the defaults.
UNSAT_A1_CONFIG ==
    ("A1" :> LevelConfig(-2, 9, LevelLimits(-1, 0, 0, 0, 0, 0))) @@
    [l \in Levels \ {"A1"} |-> DEFAULT_DIFFICULTY_CONFIG[l]]

\* A dict that lacks the rows from B1 on.
PARTIAL_CONFIG ==
    [l \in {"A1", "A2"} |-> DEFAULT_DIFFICULTY_CONFIG[l]]

ConfigNames == {None, "APPROX", "CUSTOM", "UNSAT_A1", "PARTIAL"}

\* The dict the loop reads under each name: the one the caller passes, or
\* with config=None (the argument omitted) the default.
ConfigOf(name) ==
    CASE name = "APPROX" -> APPROX_CEFR_LEVEL_CONFIG
      [] name = "CUSTOM" -> CUSTOM_CONFIG
      [] name = "UNSAT_A1" -> UNSAT_A1_CONFIG
      [] name = "PARTIAL" -> PARTIAL_CONFIG
      [] OTHER -> DEFAULT_DIFFICULTY_CONFIG

\* -------------------------------------------------------------- strings
\* A string is the sequence of its characters.  RSQUO and ACUTE stand for
\* the two apostrophe look-alikes U+2019 and U+00B4 that sentence() replaces.

UpperCase == <<"A", "B", "C", "D", "E", "F", "G", "H", "I", "J", "K", "L", "M",
               "N", "O", "P", "Q", "R", "S", "T", "U", "V", "W", "X", "Y", "Z">>

LowerCase == <<"a", "b", "c", "d", "e", "f", "g", "h", "i", "j", "k", "l", "m",
               "n", "o", "p", "q", "r", "s", "t", "u", "v", "w", "x", "y", "z">>

Digits == {"0", "1", "2", "3", "4", "5", "6", "7", "8", "9"}

IsUpper(c) == \E i \in 1..Len(UpperCase) : UpperCase[i] = c

IsLower(c) == \E i \in 1..Len(LowerCase) : LowerCase[i] = c

\* The characters of the texts of the model.
Chars ==
    {UpperCase[i] : i \in 1..Len(UpperCase)} \cup {LowerCase[i] : i \in 1..Len(LowerCase)}
    \cup Digits \cup {"'", ".", "-", " ", "RSQUO", "ACUTE", "..."}

\* str.lower(), one character.
LowerChar ==
    [c \in Chars |->
        IF IsUpper(c)
        THEN LowerCase[CHOOSE k \in 1..Len(UpperCase) : UpperCase[k] = c]
        ELSE c]

\* str.lower()
Lower(word) == [i \in 1..Len(word) |-> LowerChar[word[i]]]

\* text.replace(U+2019, "'").replace(U+00B4, "'")
ReplaceApostrophes(word) ==
    [i \in 1..Len(word) |-> IF word[i] \in {"RSQUO", "ACUTE"} THEN "'" ELSE word[i]]

\* shape.count('d')
RECURSIVE CountD(_)
CountD(shape) ==
    IF shape = <<>> THEN 0
    ELSE (IF Head(shape) = "d" THEN 1 ELSE 0) + CountD(Tail(shape))

\* ----------------------------------------------------------- vocabulary

W_tom == <<"T", "o", "m">>

W_mark == <<"M", "a", "r", "k">>

W_cat == <<"c", "a", "t">>

W_the == <<"t", "h", "e">>

W_bank == <<"b", "a", "n", "k">>

W_ubiquitous == <<"u", "b", "i", "q", "u", "i", "t", "o", "u", "s">>

W_kitties == <<"k", "i", "t", "t", "i", "e", "s">>

W_zyzzyva == <<"z", "y", "z", "z", "y", "v", "a">>

W_pm == <<"p", ".", "m", ".">>

W_s == <<"'", "s">>

W_dash == <<"-">>

W_7 == <<"7">>

W_25 == <<"2", "5">>

W_1984 == <<"1", "9", "8", "4">>

W_three == <<"t", "h", "r", "e", "e">>

W_paris == <<"P", "a", "r", "i", "s">>

W_dot == <<".">>

W_naive == <<"n", "a", "i", "v", "e">>

W_cafe == <<"c", "a", "f", "e">>

W_rsquo_s == <<"RSQUO", "s">>

W_k9 == <<"K", "9">>

W_dozen == <<"d", "o", "z", "e", "n">>

W_million == <<"m", "i", "l", "l", "i", "o", "n">>

\* Stands for a text of more than nlp.max_length characters.
W_too_long == <<"...">>

Kitty == <<"k", "i", "t", "t", "y">>

Texts ==
    {W_tom, W_mark, W_cat, W_the, W_bank, W_ubiquitous, W_kitties, W_zyzzyva, W_pm,
     W_s, W_dash, W_7, W_25, W_1984, W_three, W_paris, W_dot, W_naive,
     W_cafe, W_k9, W_dozen, W_million}

\* --------------------------------------------------- external resources

\* wordfreq.top_n_list(language, 20000): position (from 1) -> word, at the
\* positions the vocabulary occupies.
top_n_list ==
    (1 :> W_the) @@ (300 :> W_three) @@ (400 :> W_cat) @@ (450 :> W_bank) @@
    (800 :> Lower(W_mark)) @@ (900 :> W_dozen) @@ (1500 :> W_7) @@
    (1800 :> W_million) @@ (2500 :> W_pm) @@
    (3000 :> Lower(W_paris)) @@ (9000 :> W_naive) @@ (12000 :> W_ubiquitous)

\* cefrpy: CEFRAnalyzer.get_average_word_level_CEFR(word), the name of the
\* level it returns, for the words it lists.
CefrDictionary ==
    (W_the :> "A1") @@ (W_cat :> "A1") @@ (W_bank :> "B1") @@
    (W_ubiquitous :> "C1") @@ (Lower(W_mark) :> "A2") @@ (W_three :> "A1") @@
    (Lower(W_paris) :> "A2") @@ (W_pm :> "A2") @@ (W_7 :> "A2")

\* Words on which the analyzer raises instead of answering.
CefrDictionaryRaises == {W_naive, W_cafe}

\* The 'name' column of output/common_names.csv.
CommonNamesCsv == {W_tom, W_mark, W_k9}

\* spaCy's English stop list, restricted to the vocabulary.
STOP_WORDS == {W_the, W_s}

\* --------------------------------------------------------- the annotator

POS == {"NOUN", "PROPN", "NUM", "PUNCT", "SYM", "SPACE"}

EntTypes == {"", "PERSON", "CARDINAL"}

\* One character of token.shape_: letters become x or X, digits d, anything
\* else itself.
ShapeChar ==
    [c \in Chars |->
        IF c \in Digits THEN "d"
        ELSE IF IsUpper(c) THEN "X"
        ELSE IF IsLower(c) THEN "x"
        ELSE c]

\* token.shape_: the character classes of the text, a run of one class cut
\* after four characters.
RECURSIVE ShapeFrom(_, _, _)
ShapeFrom(word, last, run) ==
    IF word = <<>> THEN <<>>
    ELSE LET c == ShapeChar[Head(word)]
             r == IF c = last THEN run + 1 ELSE 1
         IN  IF r > 4 THEN ShapeFrom(Tail(word), c, r)
             ELSE <<c>> \o ShapeFrom(Tail(word), c, r)

Shape(word) == ShapeFrom(word, "", 0)

\* What the caller's text holds for one token, and what the pipeline will
\* decide about it from context (lemma, part of speech, entity label).
RawToken(word, lemma, pos, ent_type) ==
    [text |-> word, lemma |-> lemma, pos |-> pos, ent_type |-> ent_type]

\* nlp(text) for one token: the lexical attributes follow from the text.
Annotate(raw) ==
    [text |-> raw.text, lemma |-> raw.lemma, pos |-> raw.pos,
     ent_type |-> raw.ent_type, shape |-> Shape(raw.text),
     is_stop |-> Lower(raw.text) \in STOP_WORDS]

\* self.nlp(text)
nlp(raw_tokens) == [i \in 1..Len(raw_tokens) |-> Annotate(raw_tokens[i])]

\* ------------------------------------------------------------------ state

VARIABLES
    doc,            \* self.doc: Nothing (None) or Some(annotated tokens)
    text,           \* self.text: Nothing (None) or Some(normalised text)
    top_20k_words,  \* self._top_20k_words: Nothing (None) until first use
    word_rank_dict, \* self._word_rank_dict: Nothing (unset) until first use
    common_names,   \* self._common_names: Nothing (None) until first use
    names_csv,      \* output/common_names.csv: Some(names), Nothing if missing
    inputs,         \* the texts the caller passes to sentence()
    cur,            \* Some(argument of the last sentence() that returned)
    ret,            \* the outcome of the last call
    probe,          \* in a session: Some(the first query and its outcome)
    callers,        \* callers sharing the instance: where each is, its text, its level
    harness,        \* evaluate_classifier(): its batches, workers and results
    topic,          \* BatchTopicClassifier.classify_dataframe(): the call and its df
    name_filter,    \* filter_by_name_limits(): the call, its lists and its files
    applied         \* a function applied on its own: its arguments and what it gave

vars == <<doc, text, top_20k_words, word_rank_dict, common_names, names_csv,
          inputs, cur, ret, probe, callers, harness,
          topic, name_filter, applied>>

\* The state outside one classifier and the calls of its one caller.
others == <<callers, harness, topic, name_filter, applied>>

\* Python truthiness of self.doc: None and a Doc of no tokens are falsy.
Truthy(d) == ~IsNothing(d) /\ Len(Get(d)) > 0

\* ------------------------------------------------------- lookup tables

\* _get_top_20k_words(): the value it returns (and caches).
_get_top_20k_words ==
    IF IsNothing(top_20k_words) THEN top_n_list ELSE Get(top_20k_words)

\* The names of CommonNamesCsv lowercased, computed once.
CommonNamesCsvLower == {Lower(name) : name \in CommonNamesCsv}

\* The read of the CSV in _get_common_names(): the lowercased names, or the
\* empty set when the file is missing or unreadable.
LoadCommonNames ==
    IF IsNothing(names_csv) THEN {}
    ELSE IF Get(names_csv) = CommonNamesCsv THEN CommonNamesCsvLower
    ELSE {Lower(name) : name \in Get(names_csv)}

\* Mutant of _get_common_names: the set is handed out once and is empty after.
_get_common_names_handed_out_once ==
    IF IsNothing(common_names) THEN LoadCommonNames ELSE {}

\* _get_common_names(): the value it returns (and caches).
_get_common_names ==
    IF IsNothing(common_names) THEN LoadCommonNames ELSE Get(common_names)

\* {w: i + 1 for i, w in enumerate(top_words)}: a later duplicate wins.
BuildRankDict(top_words) ==
    [w \in {top_words[i] : i \in DOMAIN top_words} |->
        CHOOSE i \in DOMAIN top_words :
            /\ top_words[i] = w
            /\ \A k \in DOMAIN top_words : top_words[k] = w => k <= i]

\* The index built from the list wordfreq gives.
RankDictOfTopList == BuildRankDict(top_n_list)

\* self._word_rank_dict as get_word_rank()/get_lemma_rank() read it, built on
\* first use from _get_top_20k_words().
_word_rank_dict ==
    IF ~IsNothing(word_rank_dict) THEN Get(word_rank_dict)
    ELSE IF _get_top_20k_words = top_n_list THEN RankDictOfTopList
    ELSE BuildRankDict(_get_top_20k_words)

is_common_name(word) == Lower(word) \in _get_common_names

\* An Optional[int]: Nothing for None.
get_word_rank(word, lemma) ==
    IF Lower(word) \in DOMAIN _word_rank_dict
    THEN Some(_word_rank_dict[Lower(word)])
    ELSE IF Len(lemma) > 0 /\ Lower(lemma) \in DOMAIN _word_rank_dict
    THEN Some(_word_rank_dict[Lower(lemma)])
    ELSE Nothing

get_lemma_rank(lemma) ==
    IF Lower(lemma) \in DOMAIN _word_rank_dict
    THEN Some(_word_rank_dict[Lower(lemma)])
    ELSE Nothing

\* Mutant of get_min_rank: the lemma is not consulted.
get_min_rank_word_only(word, lemma) == get_word_rank(word, <<>>)

\* min() over the one rank get_word_rank() gives, None when it gives none.
get_min_rank(word, lemma) == get_word_rank(word, lemma)

\* cefr_analyzer.get_average_word_level_CEFR(word): the name of the level,
\* None for a word it does not list, or an exception.
get_average_word_level_CEFR(word) ==
    IF word \in CefrDictionaryRaises THEN [val |-> None, exc |-> "Exception"]
    ELSE IF word \in DOMAIN CefrDictionary
    THEN [val |-> CefrDictionary[word], exc |-> None]
    ELSE [val |-> None, exc |-> None]

\* Mutant of get_cefr_level: a failed lookup counts as the hardest level.
get_cefr_level_failure_is_hardest(word, is_entity) ==
    IF is_entity THEN None
    ELSE LET cefr_result == get_average_word_level_CEFR(Lower(word))
         IN  IF cefr_result.exc # None THEN "C2" ELSE cefr_result.val

\* The dictionary lookup; a raise inside it is swallowed and gives None.
get_cefr_level(word, is_entity) ==
    IF is_entity THEN None
    ELSE LET cefr_result == get_average_word_level_CEFR(Lower(word))
         IN  IF cefr_result.exc # None THEN None ELSE cefr_result.val

\* Mutant of get_cefr_from_rank: the band from 3001 to 5000 is C1.
get_cefr_from_rank_C1_from_3001(rank) ==
    IF IsNothing(rank) THEN None
    ELSE IF Get(rank) <= 500 THEN "A1"
    ELSE IF Get(rank) <= 1000 THEN "A2"
    ELSE IF Get(rank) <= 2000 THEN "B1"
    ELSE IF Get(rank) <= 3000 THEN "B2"
    ELSE IF Get(rank) <= 10000 THEN "C1"
    ELSE "C2"

get_cefr_from_rank(rank) ==
    IF IsNothing(rank) THEN None
    ELSE IF Get(rank) <= 500 THEN "A1"
    ELSE IF Get(rank) <= 1000 THEN "A2"
    ELSE IF Get(rank) <= 2000 THEN "B1"
    ELSE IF Get(rank) <= 3000 THEN "B2"
    ELSE IF Get(rank) <= 5000 THEN "B2"
    ELSE IF Get(rank) <= 10000 THEN "C1"
    ELSE "C2"

\* Mutant of get_combined_cefr: the dictionary level is returned unmerged.
get_combined_cefr_dictionary_only(word, lemma, is_entity, word_rank) ==
    IF Lower(word) \in DOMAIN HARDCODED_CEFR_LEVELS
    THEN HARDCODED_CEFR_LEVELS[Lower(word)]
    ELSE IF get_cefr_level(word, is_entity) # None
    THEN get_cefr_level(word, is_entity)
    ELSE get_cefr_from_rank(get_min_rank(word, lemma))

get_combined_cefr(word, lemma, is_entity, word_rank) ==
    IF Lower(word) \in DOMAIN HARDCODED_CEFR_LEVELS
    THEN HARDCODED_CEFR_LEVELS[Lower(word)]
    ELSE LET db_cefr == get_cefr_level(word, is_entity)
         IN  IF db_cefr # None
             THEN LET rank_cefr == get_cefr_from_rank(word_rank)
                  IN  IF rank_cefr # None
                      THEN cefr_levels[Max2(Index(db_cefr), Index(rank_cefr))]
                      ELSE db_cefr
             ELSE get_cefr_from_rank(get_min_rank(word, lemma))

get_digit_rank(shape) ==
    LET digit_count == CountD(shape)
    IN  IF digit_count = 1 THEN Some(500)
        ELSE IF digit_count = 2 THEN Some(1000)
        ELSE IF digit_count > 2 THEN Some(2000)
        ELSE Nothing

get_digit_difficulty(shape) == get_cefr_from_rank(get_digit_rank(shape))

\* ---------------------------------------------------------- rank aggregates

NonWordPos == {"PUNCT", "SYM", "SPACE"}

\* Mutant of ThresholdRank: a written numeral contributes the floor of its
\* bucket.
ThresholdRankFloor(cefr) ==
    CASE cefr = "A1" -> 1
      [] cefr = "A2" -> 501
      [] cefr = "B1" -> 1001
      [] cefr = "B2" -> 2001
      [] cefr = "C1" -> 5001
      [] OTHER -> 20001

\* The thresholds dict of _get_sentence_ranks, with its default.
ThresholdRank(cefr) ==
    CASE cefr = "A1" -> 500
      [] cefr = "A2" -> 1000
      [] cefr = "B1" -> 2000
      [] cefr = "B2" -> 5000
      [] cefr = "C1" -> 10000
      [] OTHER -> 20001

\* Mutant of TokenRanks: a numeral the frequency list knows contributes its
\* listed rank.
TokenRanksNumeralByFrequency(token) ==
    IF is_common_name(token.text) THEN <<300>>
    ELSE IF token.ent_type # "" \/ token.pos = "PROPN"
    THEN LET actual_rank == get_word_rank(token.text, token.lemma)
         IN  IF ~IsNothing(actual_rank) THEN <<Max2(Get(actual_rank), 20001)>>
             ELSE <<20001>>
    ELSE IF Lower(token.text) \in DOMAIN HARDCODED_CEFR_LEVELS THEN <<>>
    ELSE IF token.pos \in NonWordPos THEN <<>>
    ELSE LET rank == get_word_rank(token.text, token.lemma)
         IN  IF ~IsNothing(rank) THEN rank
             ELSE IF token.pos = "NUM" /\ ~IsNothing(get_digit_rank(token.shape))
             THEN get_digit_rank(token.shape)
             ELSE <<20001>>

\* Mutant of TokenRanks: a contraction or symbol of the override table is
\* ranked like any other word.
TokenRanksOverrideRanked(token) ==
    IF is_common_name(token.text) THEN <<300>>
    ELSE IF token.ent_type # "" \/ token.pos = "PROPN"
    THEN LET actual_rank == get_word_rank(token.text, token.lemma)
         IN  IF ~IsNothing(actual_rank) THEN <<Max2(Get(actual_rank), 20001)>>
             ELSE <<20001>>
    ELSE IF token.pos \in NonWordPos THEN <<>>
    ELSE IF token.pos = "NUM"
    THEN LET digit_rank == get_digit_rank(token.shape)
         IN  IF ~IsNothing(digit_rank) THEN <<Get(digit_rank)>>
             ELSE <<ThresholdRank(get_cefr_from_rank(
                        get_word_rank(token.text, token.lemma)))>>
    ELSE LET rank == get_word_rank(token.text, token.lemma)
         IN  IF ~IsNothing(rank) THEN rank ELSE <<20001>>

\* Mutant of TokenRanks: the entity and proper-noun test comes before the
\* name test.
TokenRanksEntityFirst(token) ==
    IF token.ent_type # "" \/ token.pos = "PROPN"
    THEN LET actual_rank == get_word_rank(token.text, token.lemma)
         IN  IF ~IsNothing(actual_rank) THEN <<Max2(Get(actual_rank), 20001)>>
             ELSE <<20001>>
    ELSE IF is_common_name(token.text) THEN <<300>>
    ELSE IF Lower(token.text) \in DOMAIN HARDCODED_CEFR_LEVELS THEN <<>>
    ELSE IF token.pos \in NonWordPos THEN <<>>
    ELSE IF token.pos = "NUM"
    THEN LET digit_rank == get_digit_rank(token.shape)
         IN  IF ~IsNothing(digit_rank) THEN <<Get(digit_rank)>>
             ELSE <<ThresholdRank(get_cefr_from_rank(
                        get_word_rank(token.text, token.lemma)))>>
    ELSE LET rank == get_word_rank(token.text, token.lemma)
         IN  IF ~IsNothing(rank) THEN rank ELSE <<20001>>

\* Mutant of TokenRanks: a named entity or proper noun with a listed rank
\* contributes that rank, floored at the 300 of a name.
TokenRanksEntityKeepsRank(token) ==
    IF is_common_name(token.text) THEN <<300>>
    ELSE IF token.ent_type # "" \/ token.pos = "PROPN"
    THEN LET actual_rank == get_word_rank(token.text, token.lemma)
         IN  IF ~IsNothing(actual_rank) THEN <<Max2(Get(actual_rank), 300)>>
             ELSE <<20001>>
    ELSE IF Lower(token.text) \in DOMAIN HARDCODED_CEFR_LEVELS THEN <<>>
    ELSE IF token.pos \in NonWordPos THEN <<>>
    ELSE IF token.pos = "NUM"
    THEN LET digit_rank == get_digit_rank(token.shape)
         IN  IF ~IsNothing(digit_rank) THEN <<Get(digit_rank)>>
             ELSE <<ThresholdRank(get_cefr_from_rank(
                        get_word_rank(token.text, token.lemma)))>>
    ELSE LET rank == get_word_rank(token.text, token.lemma)
         IN  IF ~IsNothing(rank) THEN rank ELSE <<20001>>

\* One pass of the loop of _get_sentence_ranks for one token: the ranks it
\* appends (none or one).
TokenRanks(token) ==
    IF is_common_name(token.text) THEN <<300>>
    ELSE IF token.ent_type # "" \/ token.pos = "PROPN"
    THEN LET actual_rank == get_word_rank(token.text, token.lemma)
         IN  IF ~IsNothing(actual_rank) THEN <<Max2(Get(actual_rank), 20001)>>
             ELSE <<20001>>
    ELSE IF Lower(token.text) \in DOMAIN HARDCODED_CEFR_LEVELS THEN <<>>
    ELSE IF token.pos \in NonWordPos THEN <<>>
    ELSE IF token.pos = "NUM"
    THEN LET digit_rank == get_digit_rank(token.shape)
         IN  IF ~IsNothing(digit_rank) THEN <<Get(digit_rank)>>
             ELSE <<ThresholdRank(get_cefr_from_rank(
                        get_word_rank(token.text, token.lemma)))>>
    ELSE LET rank == get_word_rank(token.text, token.lemma)
         IN  IF ~IsNothing(rank) THEN rank ELSE <<20001>>

\* Whether that pass calls get_word_rank (and so builds the rank index).
TokenLooksUpRank(token) ==
    /\ ~is_common_name(token.text)
    /\ \/ token.ent_type # ""
       \/ token.pos = "PROPN"
       \/ /\ Lower(token.text) \notin DOMAIN HARDCODED_CEFR_LEVELS
          /\ token.pos \notin NonWordPos
          /\ token.pos = "NUM" => IsNothing(get_digit_rank(token.shape))

RECURSIVE RanksFrom(_, _)
RanksFrom(d, i) ==
    IF i > Len(d) THEN <<>> ELSE TokenRanks(d[i]) \o RanksFrom(d, i + 1)

_get_sentence_ranks == IF ~Truthy(doc) THEN <<>> ELSE RanksFrom(Get(doc), 1)

RECURSIVE MaxOf(_)
MaxOf(ranks) ==
    IF Len(ranks) = 1 THEN ranks[1] ELSE Max2(Head(ranks), MaxOf(Tail(ranks)))

get_max_word_rank ==
    IF Len(_get_sentence_ranks) > 0 THEN MaxOf(_get_sentence_ranks) ELSE 0

RECURSIVE SumOf(_)
SumOf(ranks) ==
    IF ranks = <<>> THEN 0 ELSE Head(ranks) + SumOf(Tail(ranks))

\* get_average_word_rank(): the float sum(ranks) / len(ranks) as the fraction
\* sum over len, 0.0 as 0 over 1.
get_average_word_rank ==
    IF Len(_get_sentence_ranks) = 0 THEN [sum |-> 0, len |-> 1]
    ELSE [sum |-> SumOf(_get_sentence_ranks), len |-> Len(_get_sentence_ranks)]

\* ------------------------------------------------------------ classification

\* One entry of the list classification() returns.  tag, dep, is_alpha and
\* zipf_score are reported by the code and read by nothing modelled here.
ClassifyToken(token) ==
    LET word_rank == get_word_rank(token.text, token.lemma)
        is_entity == token.ent_type # ""
        combined == get_combined_cefr(token.text, token.lemma, is_entity, word_rank)
        digit_difficulty ==
            IF token.pos = "NUM" THEN get_digit_difficulty(token.shape) ELSE None
    IN  [text |-> token.text,
         lemma |-> token.lemma,
         pos |-> token.pos,
         shape |-> token.shape,
         is_stop |-> token.is_stop,
         is_name |-> is_common_name(token.text),
         word_rank |-> word_rank,
         lemma_rank |-> get_lemma_rank(token.lemma),
         cefr_level |-> get_cefr_level(token.text, is_entity),
         combined_cefr |-> IF digit_difficulty # None THEN digit_difficulty
                           ELSE combined,
         digit_difficulty |-> digit_difficulty]

\* The loop of classification() over the tokens of a Doc.
ClassificationOf(d) == [i \in 1..Len(d) |-> ClassifyToken(d[i])]

classification ==
    IF ~Truthy(doc) THEN <<>> ELSE ClassificationOf(Get(doc))

\* ------------------------------------------------------- sentence difficulty

\* Mutant of FilteredTokens: names and named entities are not words either.
FilteredTokensWithoutNames(items) ==
    SelectSeq(items, LAMBDA item : item.pos \notin NonWordPos /\ ~item.is_name)

\* Step 2: the tokens that count as words.
FilteredTokens(items) ==
    SelectSeq(items, LAMBDA item : item.pos \notin NonWordPos)

IsCounted(item) == ~item.is_stop

WordsWithoutStops(filtered) == Len(SelectSeq(filtered, IsCounted))

\* Mutant of TallyLevel: a name or proper noun is tallied like any word.
TallyLevelNamesTallied(item) ==
    LET level == IF item.combined_cefr = None THEN "B2" ELSE item.combined_cefr
    IN  IF level \in Levels THEN level ELSE None

\* Mutant of TallyLevel: a token without a level is left out of the tally.
TallyLevelUnclassifiedSkipped(item) ==
    IF item.is_name \/ item.pos = "PROPN" THEN None
    ELSE IF item.combined_cefr \in Levels THEN item.combined_cefr ELSE None

\* Mutant of TallyLevel: a token without a level is tallied at the hardest level.
TallyLevelUnclassifiedC2(item) ==
    IF item.is_name \/ item.pos = "PROPN" THEN None
    ELSE LET level == IF item.combined_cefr = None THEN "C2" ELSE item.combined_cefr
         IN  IF level \in Levels THEN level ELSE None

\* Step 3, one token: the level whose count it increments, None when it is
\* skipped.
TallyLevel(item) ==
    IF item.is_name \/ item.pos = "PROPN" THEN None
    ELSE LET level == IF item.combined_cefr = None THEN "B2" ELSE item.combined_cefr
         IN  IF level \in Levels THEN level ELSE None

CefrCounts(filtered) ==
    [l \in Levels |->
        Cardinality({i \in 1..Len(filtered) : TallyLevel(filtered[i]) = l})]

\* Mutant of LevelSatisfied: the per-level limits are not looked at.
LevelSatisfiedWordCeilingsOnly(level_config, words_with_stops, words_without_stops, cefr_counts) ==
    /\ ~(/\ level_config.max_words_with_stops # -1
         /\ words_with_stops > level_config.max_words_with_stops)
    /\ ~(/\ level_config.max_words_without_stops # -1
         /\ words_without_stops > level_config.max_words_without_stops)

\* Mutant of LevelSatisfied: the count without stop words is not looked at.
LevelSatisfiedStopsIncludedOnly(level_config, words_with_stops, words_without_stops, cefr_counts) ==
    /\ ~(/\ level_config.max_words_with_stops # -1
         /\ words_with_stops > level_config.max_words_with_stops)
    /\ \A cefr_level \in DOMAIN level_config.level_limits :
          ~(/\ level_config.level_limits[cefr_level] # -1
            /\ cefr_counts[cefr_level] > level_config.level_limits[cefr_level])

\* Mutant of LevelSatisfied: -1 is a ceiling like any other number.
LevelSatisfiedMinusOneLimits(level_config, words_with_stops, words_without_stops, cefr_counts) ==
    /\ words_with_stops <= level_config.max_words_with_stops
    /\ words_without_stops <= level_config.max_words_without_stops
    /\ \A cefr_level \in DOMAIN level_config.level_limits :
          cefr_counts[cefr_level] <= level_config.level_limits[cefr_level]

\* Mutant of LevelSatisfied: a per-level limit above 0 is a minimum the count
\* has to reach.
LevelSatisfiedLimitIsMinimum(level_config, words_with_stops, words_without_stops, cefr_counts) ==
    /\ ~(/\ level_config.max_words_with_stops # -1
         /\ words_with_stops > level_config.max_words_with_stops)
    /\ ~(/\ level_config.max_words_without_stops # -1
         /\ words_without_stops > level_config.max_words_without_stops)
    /\ \A cefr_level \in DOMAIN level_config.level_limits :
          ~(/\ level_config.level_limits[cefr_level] # -1
            /\ \/ cefr_counts[cefr_level] > level_config.level_limits[cefr_level]
               \/ /\ level_config.level_limits[cefr_level] > 0
                  /\ cefr_counts[cefr_level] < level_config.level_limits[cefr_level])

\* Step 4, one level: neither word ceiling is exceeded and no count exceeds
\* its limit (-1: no limit).
LevelSatisfied(level_config, words_with_stops, words_without_stops, cefr_counts) ==
    /\ ~(/\ level_config.max_words_with_stops # -1
         /\ words_with_stops > level_config.max_words_with_stops)
    /\ ~(/\ level_config.max_words_without_stops # -1
         /\ words_without_stops > level_config.max_words_without_stops)
    /\ \A cefr_level \in DOMAIN level_config.level_limits :
          ~(/\ level_config.level_limits[cefr_level] # -1
            /\ cefr_counts[cefr_level] > level_config.level_limits[cefr_level])

\* Mutant of LevelLoop: the levels are tried hardest first.
LevelLoopHardestFirst(i, config, words_with_stops, words_without_stops, cefr_counts) ==
    LET admitted ==
            {k \in i..Len(cefr_levels) :
                /\ cefr_levels[k] \in DOMAIN config
                /\ LevelSatisfied(config[cefr_levels[k]], words_with_stops,
                                  words_without_stops, cefr_counts)}
    IN  IF admitted = {}
        THEN [val |-> "C2", exc |-> None, exit |-> "fallback"]
        ELSE [val |-> cefr_levels[CHOOSE k \in admitted : \A j \in admitted : j <= k],
              exc |-> None, exit |-> "loop"]

\* Mutant of LevelLoop: no return after the loop, the call falls off its end.
RECURSIVE LevelLoopNoFallback(_, _, _, _, _)
LevelLoopNoFallback(i, config, words_with_stops, words_without_stops, cefr_counts) ==
    IF i > Len(cefr_levels)
    THEN [val |-> None, exc |-> None, exit |-> "fallback"]
    ELSE IF cefr_levels[i] \notin DOMAIN config
    THEN [val |-> None, exc |-> "KeyError", exit |-> "raise"]
    ELSE IF LevelSatisfied(config[cefr_levels[i]], words_with_stops,
                           words_without_stops, cefr_counts)
    THEN [val |-> cefr_levels[i], exc |-> None, exit |-> "loop"]
    ELSE LevelLoopNoFallback(i + 1, config, words_with_stops, words_without_stops,
                             cefr_counts)

\* Step 4 and 5: the loop over cefr_levels from position i and the return
\* after it.  config[level] raises KeyError for a level the dict lacks.
RECURSIVE LevelLoop(_, _, _, _, _)
LevelLoop(i, config, words_with_stops, words_without_stops, cefr_counts) ==
    IF i > Len(cefr_levels)
    THEN [val |-> "C2", exc |-> None, exit |-> "fallback"]
    ELSE IF cefr_levels[i] \notin DOMAIN config
    THEN [val |-> None, exc |-> "KeyError", exit |-> "raise"]
    ELSE IF LevelSatisfied(config[cefr_levels[i]], words_with_stops,
                           words_without_stops, cefr_counts)
    THEN [val |-> cefr_levels[i], exc |-> None, exit |-> "loop"]
    ELSE LevelLoop(i + 1, config, words_with_stops, words_without_stops,
                   cefr_counts)

\* Steps 1 to 5 of sentence_difficulty(config) for a Doc that has tokens:
\* what it returns or raises, where it left (exit) and the counts it worked
\* with.
DifficultyOf(d, name) ==
    LET config == ConfigOf(name)
        filtered == FilteredTokens(ClassificationOf(d))
        with_stops == Len(filtered)
        without_stops == WordsWithoutStops(filtered)
        counts == CefrCounts(filtered)
        out == LevelLoop(1, config, with_stops, without_stops, counts)
    IN  [val |-> out.val, exc |-> out.exc, exit |-> out.exit,
         words_with_stops |-> with_stops,
         words_without_stops |-> without_stops,
         cefr_counts |-> counts]

\* Mutant of sentence_difficulty: no early return for an empty sentence.
sentence_difficulty_no_early_return(name) ==
    IF ~Truthy(doc)
    THEN [DifficultyOf(<<>>, name) EXCEPT !.exit = "empty"]
    ELSE DifficultyOf(Get(doc), name)

\* sentence_difficulty(config) of a classifier whose self.doc is d.
SentenceDifficultyOf(d, name) ==
    IF ~Truthy(d)
    THEN [val |-> "A1", exc |-> None, exit |-> "empty"]
    ELSE DifficultyOf(Get(d), name)

\* sentence_difficulty(config)
sentence_difficulty(name) == SentenceDifficultyOf(doc, name)

\* ------------------------------------------------------------------ inputs

UpTo(S, n) == UNION {[1..k -> S] : k \in 0..n}

Rep(x, n) == [i \in 1..n |-> x]

\* The lemma the pipeline may give a text: the text itself, for the plural a
\* listed or an unlisted singular, for the unknown word also no lemma.
Lemmas(word) ==
    {word} \cup (IF word = W_kitties THEN {W_cat, Kitty} ELSE {})
           \cup (IF word = W_zyzzyva THEN {<<>>} ELSE {})

\* Every annotation of every text: the one-token sentences.
AllRawTokens ==
    UNION {{RawToken(w, l, p, e) : l \in Lemmas(w), p \in POS, e \in EntTypes} :
              w \in Texts \cup {W_rsquo_s}}

T_mark == RawToken(W_mark, W_mark, "PROPN", "PERSON")

T_cat == RawToken(W_cat, W_cat, "NOUN", "")

T_the == RawToken(W_the, W_the, "NOUN", "")

T_dot == RawToken(W_dot, W_dot, "PUNCT", "")

T_zyzzyva == RawToken(W_zyzzyva, W_zyzzyva, "NOUN", "")

T_ubiquitous == RawToken(W_ubiquitous, W_ubiquitous, "NOUN", "")

T_kitties == RawToken(W_kitties, W_cat, "NOUN", "")

\* The usual annotation of ten texts: the freely combined sentences.
CoreRawTokens ==
    {T_mark, T_cat, T_the, T_dot, T_zyzzyva, T_ubiquitous,
     RawToken(W_pm, W_pm, "NOUN", ""),
     RawToken(W_rsquo_s, W_rsquo_s, "NOUN", ""),
     RawToken(W_25, W_25, "NUM", ""),
     RawToken(W_paris, W_paris, "PROPN", "PERSON")}

\* Long sentences: a run of one of these (a name, a content word, a stop
\* word), then a tail that is a run of one of TailRawTokens.
FillRawTokens == {T_mark, T_cat, T_the}

TailRawTokens == {T_cat, T_dot, T_zyzzyva, T_ubiquitous}

T_s == RawToken(W_rsquo_s, W_rsquo_s, "NOUN", "")

T_25 == RawToken(W_25, W_25, "NUM", "")

\* "Mark's cat." and "the cat 25 ."; nine names and a full stop; two A1 words
\* and an unlisted one; 36 content words and a word of rank 12000.
ExampleSentences ==
    {<<T_mark, T_s, T_cat, T_dot>>, <<T_the, T_cat, T_25, T_dot>>,
     Rep(T_mark, 9) \o <<T_dot>>,
     <<T_cat, T_cat, T_zyzzyva>>,
     Rep(T_cat, 36) \o <<T_ubiquitous>>}

Sentences ==
    UpTo(CoreRawTokens, MaxLen)
    \cup ExampleSentences
    \cup {<<t>> : t \in AllRawTokens}
    \cup {Rep(f, n) \o Rep(t, k) :
            f \in FillRawTokens, n \in 1..MaxRep, t \in TailRawTokens, k \in 0..MaxTail}

TextInput(tokens) == [kind |-> "text", tokens |-> tokens]

\* sentence(None): not a str.
NotAString == [kind |-> "not_str", tokens |-> <<>>]

\* A text longer than nlp.max_length: the pipeline raises ValueError.
TooLong == [kind |-> "too_long", tokens |-> <<>>]

Inputs == {TextInput(tokens) : tokens \in Sentences} \cup {NotAString, TooLong}

\* The texts of a session that classifies several sentences on one instance.
SessionInputs ==
    {TextInput(<<>>), TextInput(<<T_cat>>), TextInput(<<T_mark, T_cat>>),
     TextInput(<<T_the, T_zyzzyva>>), TextInput(<<T_kitties, T_ubiquitous>>),
     NotAString, TooLong}

\* ----------------------------------------------------------------- actions

Returned(value) == [val |-> value, exc |-> None]

Raised(exception) == [val |-> None, exc |-> exception]

\* text.replace(...) on the whole text: on the text of each of its tokens.
Normalised(raw_tokens) ==
    [i \in 1..Len(raw_tokens) |->
        [raw_tokens[i] EXCEPT !.text = ReplaceApostrophes(@)]]

TextOf(raw_tokens) == [i \in 1..Len(raw_tokens) |-> raw_tokens[i].text]

\* Mutant of DocOf: the new tokens are appended to the Doc already stored.
DocOfAppended(raw_tokens) ==
    (IF IsNothing(doc) THEN <<>> ELSE Get(doc)) \o nlp(Normalised(raw_tokens))

\* The Doc that sentence() stores for a text the pipeline accepts.
DocOf(raw_tokens) == nlp(Normalised(raw_tokens))

\* Mutant of sentence: a Doc already stored is kept.
sentence_keeps_first_doc(input) ==
    /\ input.kind = "text"
    /\ text' = Some(TextOf(Normalised(input.tokens)))
    /\ doc' = IF IsNothing(doc) THEN Some(DocOf(input.tokens)) ELSE doc
    /\ cur' = Some(input)
    /\ ret' = [op |-> "sentence", arg |-> input.kind, out |-> Returned("self")]
    /\ UNCHANGED <<top_20k_words, word_rank_dict, common_names, names_csv>>

\* sentence(text)
sentence(input) ==
    /\ IF input.kind = "not_str"
       THEN \* text.replace raises before anything is assigned
            /\ ret' = [op |-> "sentence", arg |-> input.kind,
                       out |-> Raised("AttributeError")]
            /\ UNCHANGED <<doc, text, cur>>
       ELSE IF input.kind = "too_long"
       THEN \* self.text is assigned, then self.nlp(text) raises
            /\ text' = Some(<<W_too_long>>)
            /\ ret' = [op |-> "sentence", arg |-> input.kind,
                       out |-> Raised("ValueError")]
            /\ UNCHANGED <<doc, cur>>
       ELSE /\ text' = Some(TextOf(Normalised(input.tokens)))
            /\ doc' = Some(DocOf(input.tokens))
            /\ cur' = Some(input)
            /\ ret' = [op |-> "sentence", arg |-> input.kind,
                       out |-> Returned("self")]
    /\ UNCHANGED <<top_20k_words, word_rank_dict, common_names, names_csv>>

\* The lookups of one classification() pass over a non-empty doc leave all
\* three tables built.
BuildAllTables ==
    /\ top_20k_words' = Some(_get_top_20k_words)
    /\ word_rank_dict' = Some(_word_rank_dict)
    /\ common_names' = Some(_get_common_names)

\* classification()
Classification ==
    /\ ret' = [op |-> "classification", arg |-> None,
               out |-> Returned(classification)]
    /\ IF Truthy(doc) THEN BuildAllTables
       ELSE UNCHANGED <<top_20k_words, word_rank_dict, common_names>>
    /\ UNCHANGED <<doc, text, names_csv, inputs, cur>>

\* sentence_difficulty(config)
SentenceDifficulty(name) ==
    /\ ret' = [op |-> "sentence_difficulty", arg |-> name,
               out |-> sentence_difficulty(name)]
    /\ IF Truthy(doc) THEN BuildAllTables
       ELSE UNCHANGED <<top_20k_words, word_rank_dict, common_names>>
    /\ UNCHANGED <<doc, text, names_csv, inputs, cur>>

\* get_max_word_rank()
GetMaxWordRank ==
    /\ ret' = [op |-> "get_max_word_rank", arg |-> None,
               out |-> Returned(get_max_word_rank)]
    /\ IF Truthy(doc)
       THEN /\ common_names' = Some(_get_common_names)
            /\ IF \E i \in 1..Len(Get(doc)) : TokenLooksUpRank(Get(doc)[i])
               THEN /\ top_20k_words' = Some(_get_top_20k_words)
                    /\ word_rank_dict' = Some(_word_rank_dict)
               ELSE UNCHANGED <<top_20k_words, word_rank_dict>>
       ELSE UNCHANGED <<top_20k_words, word_rank_dict, common_names>>
    /\ UNCHANGED <<doc, text, names_csv, inputs, cur>>

\* get_average_word_rank()
GetAverageWordRank ==
    /\ ret' = [op |-> "get_average_word_rank", arg |-> None,
               out |-> Returned(get_average_word_rank)]
    /\ IF Truthy(doc)
       THEN /\ common_names' = Some(_get_common_names)
            /\ IF \E i \in 1..Len(Get(doc)) : TokenLooksUpRank(Get(doc)[i])
               THEN /\ top_20k_words' = Some(_get_top_20k_words)
                    /\ word_rank_dict' = Some(_word_rank_dict)
               ELSE UNCHANGED <<top_20k_words, word_rank_dict>>
       ELSE UNCHANGED <<top_20k_words, word_rank_dict, common_names>>
    /\ UNCHANGED <<doc, text, names_csv, inputs, cur>>

\* ------------------------------------------------- lookups called directly
\* The lookup methods are public: a caller may use them on their own, with or
\* without a sentence set.  Each builds the tables it reads and no other.

\* The words a caller looks up, each with the lemma it passes: a plural
\* listed under its lemma, an unlisted word.
LookupWords == {<<W_kitties, W_cat>>, <<W_zyzzyva, W_zyzzyva>>}

\* The arguments of get_combined_cefr(word, lemma, is_entity, word_rank): a
\* word of the dictionary with its rank, an unlisted word with no rank (<<>>
\* for None).
CombinedArguments ==
    {<<W_cat, W_cat, FALSE, Some(400)>>,
     <<W_zyzzyva, W_zyzzyva, FALSE, Nothing>>}

\* _get_top_20k_words()
GetTop20kWords ==
    /\ ret' = [op |-> "_get_top_20k_words", arg |-> None,
               out |-> Returned(_get_top_20k_words)]
    /\ top_20k_words' = Some(_get_top_20k_words)
    /\ UNCHANGED <<doc, text, word_rank_dict, common_names, names_csv, inputs, cur>>

\* is_common_name(word)
IsCommonNameCall(word) ==
    /\ ret' = [op |-> "is_common_name", arg |-> word,
               out |-> Returned(is_common_name(word))]
    /\ common_names' = Some(_get_common_names)
    /\ UNCHANGED <<doc, text, top_20k_words, word_rank_dict, names_csv, inputs, cur>>

\* get_word_rank(word, lemma)
GetWordRank(word, lemma) ==
    /\ ret' = [op |-> "get_word_rank", arg |-> <<word, lemma>>,
               out |-> Returned(get_word_rank(word, lemma))]
    /\ top_20k_words' = Some(_get_top_20k_words)
    /\ word_rank_dict' = Some(_word_rank_dict)
    /\ UNCHANGED <<doc, text, common_names, names_csv, inputs, cur>>

\* get_lemma_rank(lemma)
GetLemmaRank(lemma) ==
    /\ ret' = [op |-> "get_lemma_rank", arg |-> lemma,
               out |-> Returned(get_lemma_rank(lemma))]
    /\ top_20k_words' = Some(_get_top_20k_words)
    /\ word_rank_dict' = Some(_word_rank_dict)
    /\ UNCHANGED <<doc, text, common_names, names_csv, inputs, cur>>

\* get_min_rank(word, lemma)
GetMinRank(word, lemma) ==
    /\ ret' = [op |-> "get_min_rank", arg |-> <<word, lemma>>,
               out |-> Returned(get_min_rank(word, lemma))]
    /\ top_20k_words' = Some(_get_top_20k_words)
    /\ word_rank_dict' = Some(_word_rank_dict)
    /\ UNCHANGED <<doc, text, common_names, names_csv, inputs, cur>>

\* get_combined_cefr(word, lemma, is_entity, word_rank): the rank tables are
\* read only on the branch that calls get_min_rank().
GetCombinedCefr(word, lemma, is_entity, word_rank) ==
    /\ ret' = [op |-> "get_combined_cefr",
               arg |-> <<word, lemma, is_entity, word_rank>>,
               out |-> Returned(get_combined_cefr(word, lemma, is_entity, word_rank))]
    /\ IF /\ Lower(word) \notin DOMAIN HARDCODED_CEFR_LEVELS
          /\ get_cefr_level(word, is_entity) = None
       THEN /\ top_20k_words' = Some(_get_top_20k_words)
            /\ word_rank_dict' = Some(_word_rank_dict)
       ELSE UNCHANGED <<top_20k_words, word_rank_dict>>
    /\ UNCHANGED <<doc, text, common_names, names_csv, inputs, cur>>

\* visualise(): with a sentence set it calls sentence_difficulty() and
\* classification() and prints their results; it returns None.
Visualise ==
    /\ ret' = [op |-> "visualise", arg |-> None, out |-> Returned(None)]
    /\ IF Truthy(doc) THEN BuildAllTables
       ELSE UNCHANGED <<top_20k_words, word_rank_dict, common_names>>
    /\ UNCHANGED <<doc, text, names_csv, inputs, cur>>

\* Any one of the direct calls.
Lookup ==
    \/ GetTop20kWords
    \/ \E word \in {W_tom, W_cat} : IsCommonNameCall(word)
    \/ \E args \in LookupWords : GetWordRank(args[1], args[2])
    \/ \E args \in LookupWords : GetLemmaRank(args[2])
    \/ \E args \in LookupWords : GetMinRank(args[1], args[2])
    \/ \E args \in CombinedArguments :
          GetCombinedCefr(args[1], args[2], args[3], args[4])
    \/ Visualise

\* ------------------------------------------------------------ specifications

\* SentenceClassifier.__init__: nothing is loaded, no sentence is set.
Constructed ==
    /\ doc = Nothing
    /\ text = Nothing
    /\ top_20k_words = Nothing
    /\ word_rank_dict = Nothing
    /\ common_names = Nothing
    /\ cur = Nothing
    /\ probe = Nothing
    /\ ret = [op |-> "__init__", arg |-> None, out |-> Returned(None)]

\* One text per run, any of Inputs: inputs is empty until the caller passes
\* its text, and holds that text from then on.  The names file is in place.
\* Nothing but the one classifier and its caller.
Alone ==
    /\ callers = <<>>
    /\ harness = <<>>
    /\ topic = <<>>
    /\ name_filter = <<>>
    /\ applied = <<>>

Init ==
    /\ Constructed
    /\ Alone
    /\ names_csv = Some(CommonNamesCsv)
    /\ inputs = {}

\* A session over SessionInputs, in any order and any number of times, with
\* or without the names file.
InitSession ==
    /\ Constructed
    /\ Alone
    /\ names_csv \in {Some(CommonNamesCsv), Nothing}
    /\ inputs = SessionInputs

\* The texts the caller of one text may pass: any, then the one it passed.
OneText == IF inputs = {} THEN Inputs ELSE inputs

Next ==
    \/ \E input \in OneText :
          sentence(input) /\ inputs' = {input} /\ UNCHANGED <<probe, others>>
    \/ Classification /\ UNCHANGED <<probe, others>>
    \/ \E name \in ConfigNames : SentenceDifficulty(name) /\ UNCHANGED <<probe, others>>
    \/ GetMaxWordRank /\ UNCHANGED <<probe, others>>
    \/ GetAverageWordRank /\ UNCHANGED <<probe, others>>
    \/ Lookup /\ UNCHANGED <<probe, others>>

Spec == Init /\ [][Next]_vars

Queries ==
    {"classification", "sentence_difficulty", "get_max_word_rank",
     "get_average_word_rank"}

\* The observer of a session: it may keep one query made after a sentence()
\* that returned, with the text it was about and its outcome, and it notes
\* whether a query about another text has been made since.
RecordProbe ==
    IF ret'.op \in Queries /\ ~IsNothing(cur')
    THEN IF IsNothing(probe)
         THEN probe' \in {probe,
                          Some([input |-> Get(cur'), op |-> ret'.op,
                                arg |-> ret'.arg, out |-> ret'.out,
                                between |-> FALSE])}
         ELSE probe' = Some([Get(probe) EXCEPT !.between =
                                @ \/ Get(cur') # Get(probe).input])
    ELSE probe' = probe

NextSession ==
    \/ \E input \in inputs :
          sentence(input) /\ RecordProbe /\ UNCHANGED <<inputs, others>>
    \/ Classification /\ RecordProbe /\ UNCHANGED others
    \/ \E name \in ConfigNames : SentenceDifficulty(name) /\ RecordProbe /\ UNCHANGED others
    \/ GetMaxWordRank /\ RecordProbe /\ UNCHANGED others
    \/ GetAverageWordRank /\ RecordProbe /\ UNCHANGED others
    \/ Lookup /\ RecordProbe /\ UNCHANGED others

SpecSession == InitSession /\ [][NextSession]_vars

\* ------------------------------------------- two callers, one instance

Callers == {"caller1", "caller2"}

\* The texts the callers classify: "cat", "the zyzzyva", "kitties
\* ubiquitous", "Mark cat".
SharedSentences ==
    {<<T_cat>>, <<T_the, T_zyzzyva>>, <<T_kitties, T_ubiquitous>>, <<T_mark, T_cat>>}

\* A caller that has not called yet.
AtStart == [pc |-> "start", x |-> Nothing, level |-> None, held |-> Nothing]

\* clf.sentence(x) by caller c
CallerSentence(c) ==
    /\ callers[c].pc = "start"
    /\ \E x \in SharedSentences :
          /\ sentence(TextInput(x))
          /\ callers' = [callers EXCEPT ![c] = [@ EXCEPT !.pc = "set", !.x = Some(x)]]
    /\ UNCHANGED <<probe, inputs>>

\* clf.sentence_difficulty() by caller c; held notes the sentence the
\* instance held when the call ran.
CallerDifficulty(c) ==
    /\ callers[c].pc = "set"
    /\ SentenceDifficulty(None)
    /\ callers' = [callers EXCEPT ![c] =
                      [@ EXCEPT !.pc = "done", !.level = ret'.out.val, !.held = cur]]
    /\ UNCHANGED probe

\* Caller c goes on to its next text.
CallerAgain(c) ==
    /\ callers[c].pc = "done"
    /\ callers' = [callers EXCEPT ![c] = AtStart]
    /\ UNCHANGED <<doc, text, top_20k_words, word_rank_dict, common_names,
                   names_csv, inputs, cur, ret, probe>>

NextShared ==
    \/ \E c \in Callers : CallerSentence(c) /\ UNCHANGED <<harness, topic, name_filter, applied>>
    \/ \E c \in Callers : CallerDifficulty(c) /\ UNCHANGED <<harness, topic, name_filter, applied>>
    \/ \E c \in Callers : CallerAgain(c) /\ UNCHANGED <<harness, topic, name_filter, applied>>

InitShared ==
    /\ Constructed
    /\ names_csv = Some(CommonNamesCsv)
    /\ inputs = {TextInput(x) : x \in SharedSentences}
    /\ callers = [c \in Callers |-> AtStart]
    /\ harness = <<>>
    /\ topic = <<>>
    /\ name_filter = <<>>
    /\ applied = <<>>

SpecShared == InitShared /\ [][NextShared]_vars

\* ------------------------------------------------- the evaluation harness
\* utils/evaluate_classifier.py: evaluate_classifier() cuts the sentences
\* into batches and submits each to a process pool; classify_batch() runs in
\* a worker with a classifier of its own.  The lookup tables of a worker's
\* classifier are loaded from the same files and lists in every process.

\* The texts of the labelled files: "cat", "the zyzzyva", "kitties ubiquitous".
HarnessTexts == <<(<<T_cat>>), (<<T_the, T_zyzzyva>>), (<<T_kitties, T_ubiquitous>>)>>

\* all_sentences: n texts in turn, the one at position bad (if any) a text
\* the pipeline fails on.
AllSentences(n, shift, bad) ==
    [i \in 1..n |->
        IF i = bad THEN TooLong
        ELSE TextInput(HarnessTexts[((i + shift) % Len(HarnessTexts)) + 1])]

\* batch_size = max(10, len(all_sentences) // (num_workers * 4))
BatchSize(all_sentences, num_workers) ==
    Max2(10, Len(all_sentences) \div (num_workers * 4))

Min2(a, b) == IF a <= b THEN a ELSE b

\* [all_sentences[i:i + batch_size] for i in range(0, len, batch_size)]
Batches(all_sentences, batch_size) ==
    [k \in 1..((Len(all_sentences) + batch_size - 1) \div batch_size) |->
        SubSeq(all_sentences, (k - 1) * batch_size + 1,
               Min2(k * batch_size, Len(all_sentences)))]

\* Mutant of ClassifierOf: every batch works with one classifier.
ClassifierOfShared(b) == 1

\* The classifier classify_batch() constructs for batch b: its own.
ClassifierOf(b) == b

Queued == [pc |-> "queued", i |-> 1, results |-> <<>>]

Running(b) == harness.workers[b].pc \in {"sentence", "difficulty"}

\* Batch b keeps a pool process busy: the process has it and classify_batch()
\* has not begun, or is running.  The processes take the submitted batches
\* in the order of submission, so an earlier batch that has not begun is in
\* the hands of a process.
Unfinished(b) == harness.workers[b].pc = "queued" \/ Running(b)

\* classify_batch() of batch b begins and constructs its classifier, in the
\* process that took the batch.  Which process begins first is up to the
\* scheduler; a process is there for batch b when the earlier batches that
\* are not finished are fewer than the processes.
StartBatch(b) ==
    /\ harness.workers[b].pc = "queued"
    /\ Cardinality({k \in 1..(b - 1) : Unfinished(k)}) < harness.num_workers
    /\ harness' = [harness EXCEPT !.workers[b].pc = "sentence",
                                  !.classifiers[ClassifierOf(b)] = Nothing]

\* classifier.sentence(sentence) for item i of batch b; an exception ends
\* classify_batch().
BatchSentence(b) ==
    /\ harness.workers[b].pc = "sentence"
    /\ LET item == harness.batches[b][harness.workers[b].i]
       IN  IF item.kind = "text"
           THEN harness' = [harness EXCEPT
                               !.workers[b].pc = "difficulty",
                               !.classifiers[ClassifierOf(b)] = Some(DocOf(item.tokens))]
           ELSE harness' = [harness EXCEPT !.workers[b].pc = "failed"]

\* predicted = classifier.sentence_difficulty() and the row appended; after
\* the last item classify_batch() returns its rows.
BatchDifficulty(b) ==
    /\ harness.workers[b].pc = "difficulty"
    /\ LET w == harness.workers[b]
           item == harness.batches[b][w.i]
           predicted == SentenceDifficultyOf(harness.classifiers[ClassifierOf(b)], None).val
           row == [sentence |-> item.tokens, predicted |-> predicted]
       IN  harness' = [harness EXCEPT
                          !.workers[b] =
                              [pc |-> IF w.i = Len(harness.batches[b])
                                      THEN "returned" ELSE "sentence",
                               i |-> w.i + 1,
                               results |-> Append(w.results, row)]]

\* as_completed() hands over a finished batch: its rows are added to
\* results, or its exception is printed.
CollectBatch(b) ==
    /\ harness.workers[b].pc \in {"returned", "failed"}
    /\ harness' = [harness EXCEPT
                      !.workers[b].pc = "collected",
                      !.results = IF harness.workers[b].pc = "returned"
                                  THEN @ \o harness.workers[b].results ELSE @]

\* evaluate_classifier() up to the submission of the batches.
InitHarness ==
    /\ Constructed
    /\ names_csv = Some(CommonNamesCsv)
    /\ inputs = {}
    /\ callers = <<>>
    /\ topic = <<>>
    /\ name_filter = <<>>
    /\ applied = <<>>
    /\ \E n \in {2, MaxSentences}, shift \in 0..(Len(HarnessTexts) - 1),
          num_workers \in 1..2 :
          \E bad \in {0, 1, n} :
             LET all_sentences == AllSentences(n, shift, bad)
                 batches == Batches(all_sentences, BatchSize(all_sentences, num_workers))
             IN  harness = [all_sentences |-> all_sentences,
                            num_workers |-> num_workers,
                            batches |-> batches,
                            workers |-> [b \in DOMAIN batches |-> Queued],
                            classifiers |-> [b \in DOMAIN batches |-> Nothing],
                            results |-> <<>>]

Classifier == <<doc, text, top_20k_words, word_rank_dict, common_names, names_csv,
                inputs, cur, ret, probe>>

NextHarness ==
    \/ \E b \in DOMAIN harness.workers :
          StartBatch(b) /\ UNCHANGED <<Classifier, callers, topic, name_filter, applied>>
    \/ \E b \in DOMAIN harness.workers :
          BatchSentence(b) /\ UNCHANGED <<Classifier, callers, topic, name_filter, applied>>
    \/ \E b \in DOMAIN harness.workers :
          BatchDifficulty(b) /\ UNCHANGED <<Classifier, callers, topic, name_filter, applied>>
    \/ \E b \in DOMAIN harness.workers :
          CollectBatch(b) /\ UNCHANGED <<Classifier, callers, topic, name_filter, applied>>

SpecHarness == InitHarness /\ [][NextHarness]_vars

\* --------------------------------------------------- the topic classifier
\* llm_classifier.py, BatchTopicClassifier.classify_dataframe(): the rows
\* without topics go through up to max_passes passes of batch calls, what
\* still failed goes through one call each.  The df index is taken to be
\* unique.  The fields submitted, failed_in, succeeded and individual of the
\* state observe the call: how often a row went into a batch call, in which
\* passes its batch failed, whether a batch call gave it a result, whether
\* it was handed to _process_individual().

\* What the model answers to a batch of n sentences: n results, a wrong
\* number of them (within 2 or not), or an exception.
BatchReplies(n) == {[count |-> k] : k \in {n, n - 1, n + 3} \ {-1}} \cup {[count |-> -1]}

\* _try_align_results(): alignment is not implemented, None.
_try_align_results == Nothing

\* _classify_single_batch(): whether the reply gives every index a result;
\* otherwise every index of the batch is failed.
BatchSucceeds(batch_indices, reply) ==
    IF reply.count = -1 THEN FALSE
    ELSE IF reply.count = Len(batch_indices) THEN TRUE
    ELSE IF (IF reply.count > Len(batch_indices) THEN reply.count - Len(batch_indices)
             ELSE Len(batch_indices) - reply.count) <= 2
    THEN ~IsNothing(_try_align_results)
    ELSE FALSE

\* Mutant of FailedOfBatch: the whole batch is kept for the next pass.
FailedOfBatchAll(batch_items, batch_failed) == batch_items

\* _process_pass(): the items of the batch whose index is in batch_failed,
\* in that order.
FailedOfBatch(batch_items, batch_failed) ==
    SelectSeq(batch_items, LAMBDA idx : \E k \in 1..Len(batch_failed) : batch_failed[k] = idx)

\* Mutant of IndividualResult: a failed call leaves the row as it was.
IndividualResultNoneOnFailure(ok) == IF ok THEN "individual" ELSE None

\* _process_individual(): the topics of one row, the empty string when the
\* call raises.
IndividualResult(ok) == IF ok THEN "individual" ELSE ""

\* df[needs_processing]: the rows whose topics are missing, in order.
NeedsProcessing(df) ==
    SelectSeq([i \in 1..Len(df) |-> i], LAMBDA idx : df[idx] = None)

\* After the pass loop: the individual fallback if anything is left, else
\* the return.
AfterPasses(to_process) == IF Len(to_process) > 0 THEN "individual" ELSE "returned"

\* The head of `for pass_num in range(1, self.max_passes + 1)`.
LoopHead(pass_num, to_process) ==
    IF pass_num <= topic.max_passes /\ Len(to_process) > 0 THEN "pass"
    ELSE AfterPasses(to_process)

\* classify_dataframe() up to the first pass.
ClassifyDataframeBegin ==
    /\ topic.pc = "start"
    /\ LET to_process == NeedsProcessing(topic.df)
       IN  topic' = [topic EXCEPT
                        !.pc = IF Len(to_process) = 0 THEN "returned"
                               ELSE LoopHead(1, to_process),
                        !.needed = {to_process[k] : k \in 1..Len(to_process)},
                        !.to_process = to_process,
                        !.pass_num = 1,
                        !.batch_start = 1,
                        !.individual =
                            [idx \in DOMAIN topic.df |->
                                /\ Len(to_process) > 0
                                /\ LoopHead(1, to_process) = "individual"
                                /\ \E k \in 1..Len(to_process) : to_process[k] = idx]]

\* One turn of the batch loop of _process_pass(): one batch call.
ProcessBatch ==
    /\ topic.pc = "pass"
    /\ topic.batch_start <= Len(topic.to_process)
    /\ LET batch_end == Min2(topic.batch_start + topic.batch_size - 1,
                             Len(topic.to_process))
           batch_items == SubSeq(topic.to_process, topic.batch_start, batch_end)
           in_batch == {batch_items[k] : k \in 1..Len(batch_items)}
       IN  \E reply \in BatchReplies(Len(batch_items)) :
              LET ok == BatchSucceeds(batch_items, reply)
                  batch_failed == IF ok THEN <<>> ELSE batch_items
              IN  topic' = [topic EXCEPT
                    !.batch_start = batch_end + 1,
                    !.pass_results = IF ok THEN @ \cup in_batch ELSE @,
                    !.failed_sentences = @ \o FailedOfBatch(batch_items, batch_failed),
                    !.error_count = IF ok THEN @ ELSE @ + 1,
                    !.submitted = [idx \in DOMAIN @ |->
                                      IF idx \in in_batch THEN @[idx] + 1 ELSE @[idx]],
                    !.failed_in = [idx \in DOMAIN @ |->
                                      IF idx \in in_batch /\ ~ok
                                      THEN @[idx] \cup {topic.pass_num} ELSE @[idx]],
                    !.succeeded = [idx \in DOMAIN @ |->
                                      @[idx] \/ (idx \in in_batch /\ ok)]]

\* The end of a pass: its results go into the df, the failed sentences are
\* the next pass's, or the fallback's.
EndPass ==
    /\ topic.pc = "pass"
    /\ topic.batch_start > Len(topic.to_process)
    /\ LET next == LoopHead(topic.pass_num + 1, topic.failed_sentences)
       IN  topic' = [topic EXCEPT
              !.df = [idx \in DOMAIN @ |->
                         IF idx \in topic.pass_results THEN "batch" ELSE @[idx]],
              !.to_process = topic.failed_sentences,
              !.failed_sentences = <<>>,
              !.pass_results = {},
              !.pass_num = @ + 1,
              !.batch_start = 1,
              !.pc = next,
              !.individual = [idx \in DOMAIN @ |->
                                 /\ next = "individual"
                                 /\ \E k \in 1..Len(topic.failed_sentences) :
                                       topic.failed_sentences[k] = idx]]

\* One turn of the loop of _process_individual(): one call.
ProcessIndividual ==
    /\ topic.pc = "individual"
    /\ topic.batch_start <= Len(topic.to_process)
    /\ \E ok \in BOOLEAN :
          topic' = [topic EXCEPT
                       !.individual_results =
                           @ @@ (topic.to_process[topic.batch_start] :> IndividualResult(ok)),
                       !.error_count = IF ok THEN @ ELSE @ + 1,
                       !.batch_start = @ + 1]

\* The individual results go into the df and classify_dataframe() returns.
EndIndividual ==
    /\ topic.pc = "individual"
    /\ topic.batch_start > Len(topic.to_process)
    /\ topic' = [topic EXCEPT
                    !.df = [idx \in DOMAIN @ |->
                               IF idx \in DOMAIN topic.individual_results
                               THEN topic.individual_results[idx] ELSE @[idx]],
                    !.pc = "returned"]

\* BatchTopicClassifier.__init__ and the df handed to classify_dataframe():
\* some rows have topics from the cache.
InitTopic ==
    /\ Constructed
    /\ names_csv = Some(CommonNamesCsv)
    /\ inputs = {}
    /\ callers = <<>>
    /\ harness = <<>>
    /\ name_filter = <<>>
    /\ applied = <<>>
    /\ \E n \in 1..MaxRows, batch_size \in 1..MaxBatchSize, max_passes \in 0..MaxPasses :
          \E cached \in {{}, {1}, 1..n} :
             topic = [pc |-> "start",
                      batch_size |-> batch_size,
                      max_passes |-> max_passes,
                      error_count |-> 0,
                      df |-> [idx \in 1..n |-> IF idx \in cached THEN "cached" ELSE None],
                      needed |-> {},
                      to_process |-> <<>>,
                      pass_num |-> 1,
                      batch_start |-> 1,
                      pass_results |-> {},
                      failed_sentences |-> <<>>,
                      individual_results |-> <<>>,
                      submitted |-> [idx \in 1..n |-> 0],
                      failed_in |-> [idx \in 1..n |-> {}],
                      succeeded |-> [idx \in 1..n |-> FALSE],
                      individual |-> [idx \in 1..n |-> FALSE]]

NextTopic ==
    \/ ClassifyDataframeBegin /\ UNCHANGED <<Classifier, callers, harness, name_filter, applied>>
    \/ ProcessBatch /\ UNCHANGED <<Classifier, callers, harness, name_filter, applied>>
    \/ EndPass /\ UNCHANGED <<Classifier, callers, harness, name_filter, applied>>
    \/ ProcessIndividual /\ UNCHANGED <<Classifier, callers, harness, name_filter, applied>>
    \/ EndIndividual /\ UNCHANGED <<Classifier, callers, harness, name_filter, applied>>

SpecTopic == InitTopic /\ [][NextTopic]_vars

\* The call runs on: no step of classify_dataframe() waits for anything but
\* the reply or the exception of the call it makes.
SpecTopicFair == SpecTopic /\ WF_vars(NextTopic)

\* ------------------------------------------- filter_by_name_limits()
\* data_filtering/utils/filter_sentences.py. A row of the input file is
\* [id, text]; the ids of a file are distinct. The texts are strings of
\* characters, and a name is found in a text as the code finds it: by
\* re.search of \bname\b in the lowered text.

W_mary == <<"M", "a", "r", "y">>

S_tom_ran == <<"T", "o", "m", " ", "r", "a", "n", ".">>

S_mary_s == <<"M", "a", "r", "y", "'", "s">>

S_tom_mary == <<"t", "o", "m", "-", "M", "a", "r", "y">>

S_tomcat == <<"T", "o", "m", "c", "a", "t">>

\* The texts of the rows of the input file.
FilterTexts == {S_tom_ran, S_mary_s, S_tom_mary, S_tomcat}

\* The limited_names arguments: one name, two names in either order, a name
\* given twice in different case, and none.
LimitedNames ==
    {<<W_tom>>, <<W_tom, W_mary>>, <<W_mary, W_tom>>, <<W_tom, Lower(W_tom)>>, <<>>}

\* The name_limit_percent arguments. For these p/100 is an exact float, so
\* int(target_size * (p / 100)) is the truncated quotient.
NameLimitPercents == {25, 50, 100}

\* \w of a Python str pattern, over Chars.
IsWordChar(c) == IsUpper(c) \/ IsLower(c) \/ c \in Digits

\* \b at the position after the first k characters of s.
WordBoundary(s, k) ==
    (k >= 1 /\ IsWordChar(s[k])) # (k < Len(s) /\ IsWordChar(s[k + 1]))

\* re.search(rf'\b{re.escape(name_lower)}\b', s) is not None
ContainsName(s, name_lower) ==
    \E i \in 1..(Len(s) - Len(name_lower) + 1) :
        /\ SubSeq(s, i, i + Len(name_lower) - 1) = name_lower
        /\ WordBoundary(s, i - 1)
        /\ WordBoundary(s, i + Len(name_lower) - 1)

\* list({name.lower(): name for name in limited_names}.keys()): the lowered
\* names, each once, in the order of their first occurrence.
RECURSIVE LimitedNamesLower(_)
LimitedNamesLower(names) ==
    IF names = <<>> THEN <<>>
    ELSE LET before == LimitedNamesLower(SubSeq(names, 1, Len(names) - 1))
             key == Lower(names[Len(names)])
         IN  IF \E i \in DOMAIN before : before[i] = key
             THEN before
             ELSE Append(before, key)

\* name_mapping[name_lower]: the last of limited_names with that lowering.
NameMapping(names, name_lower) ==
    names[CHOOSE i \in DOMAIN names :
             /\ Lower(names[i]) = name_lower
             /\ \A j \in DOMAIN names : Lower(names[j]) = name_lower => j <= i]

\* int(target_size * (name_limit_percent / 100)), target_size the number of
\* rows of the input when it is None.
NameLimit(target_size, total_lines, name_limit_percent) ==
    LET size == IF IsNothing(target_size) THEN total_lines ELSE Get(target_size)
    IN  (size * name_limit_percent) \div 100

\* The rows of the read loop that go to sentences_by_name[name_lower].
SentencesByName(rows, name_lower) ==
    SelectSeq(rows, LAMBDA row : ContainsName(Lower(row.text), name_lower))

\* The rows of the read loop in which no limited name was found.
SentencesWithoutLimitedNames(rows, names_lower) ==
    SelectSeq(rows, LAMBDA row :
        \A i \in DOMAIN names_lower : ~ContainsName(Lower(row.text), names_lower[i]))

\* sorted(limited_names_lower, key=lambda n: name_counts[n], reverse=True):
\* most frequent first, names of equal count in their given order.
SortedNames(names_lower, by_name) ==
    LET count(i) == Len(by_name[names_lower[i]])
        place(i) == 1 + Cardinality({j \in DOMAIN names_lower :
                                        \/ count(j) > count(i)
                                        \/ count(j) = count(i) /\ j < i})
    IN  [p \in DOMAIN names_lower |->
            names_lower[CHOOSE i \in DOMAIN names_lower : place(i) = p]]

\* random.sample(population, k): k rows of distinct positions, in any order.
RandomSample(population, k) ==
    {[i \in 1..k |-> population[f[i]]] :
        f \in {g \in [1..k -> DOMAIN population] :
                  \A a, b \in 1..k : a # b => g[a] # g[b]}}

\* {s['id'] for s in rows}
IdsOf(rows) == {rows[i].id : i \in DOMAIN rows}

\* The rows appended while their id is not yet in the seen set.
RECURSIVE UniqueById(_)
UniqueById(rows) ==
    IF rows = <<>> THEN <<>>
    ELSE LET before == UniqueById(SubSeq(rows, 1, Len(rows) - 1))
             row == rows[Len(rows)]
         IN  IF row.id \in IdsOf(before) THEN before ELSE Append(before, row)

\* The rows of sentences_to_keep_by_name, name after name in sorted order.
RECURSIVE KeptInOrder(_, _)
KeptInOrder(sorted_names, to_keep) ==
    IF sorted_names = <<>> THEN <<>>
    ELSE KeptInOrder(SubSeq(sorted_names, 1, Len(sorted_names) - 1), to_keep)
         \o to_keep[sorted_names[Len(sorted_names)]]

\* Step 3: final_sentences.
FinalSentences(sorted_names, to_keep, without) ==
    UniqueById(KeptInOrder(sorted_names, to_keep)) \o without

\* The rows written to filtered_output_file, each with the names found in it
\* as its filter_reason.
FilteredRows(filtered_sentences, names, names_lower) ==
    LET unique_filtered == UniqueById(filtered_sentences)
    IN  [i \in DOMAIN unique_filtered |->
            [id |-> unique_filtered[i].id,
             text |-> unique_filtered[i].text,
             filter_reason |->
                 LET matched == SelectSeq(names_lower, LAMBDA n :
                                    ContainsName(Lower(unique_filtered[i].text), n))
                 IN  [k \in DOMAIN matched |-> NameMapping(names, matched[k])]]]

\* The start of the call, the read loop and the sort of the names: lines
\* 686-779. An empty limited_names raises ValueError.
FilterRead ==
    /\ name_filter # <<>>
    /\ name_filter.pc = "start"
    /\ IF name_filter.limited_names = <<>>
       THEN name_filter' = [name_filter EXCEPT !.pc = "ValueError"]
       ELSE LET rows == name_filter.input_file
                names_lower == LimitedNamesLower(name_filter.limited_names)
                by_name == [n \in {names_lower[i] : i \in DOMAIN names_lower} |->
                               SentencesByName(rows, n)]
            IN  name_filter' =
                    [name_filter EXCEPT
                        !.pc = "names",
                        !.name_limit = NameLimit(name_filter.target_size, Len(rows),
                                                 name_filter.name_limit_percent),
                        !.limited_names_lower = names_lower,
                        !.sentences_by_name = by_name,
                        !.sentences_without_limited_names =
                            SentencesWithoutLimitedNames(rows, names_lower),
                        !.sorted_names = SortedNames(names_lower, by_name),
                        !.next_name = 1]

\* One turn of the loop over sorted_names: lines 787-823.
FilterName ==
    /\ name_filter # <<>>
    /\ name_filter.pc = "names"
    /\ name_filter.next_name <= Len(name_filter.sorted_names)
    /\ LET name_lower == name_filter.sorted_names[name_filter.next_name]
           available_sentences ==
               SelectSeq(name_filter.sentences_by_name[name_lower],
                         LAMBDA s : s.id \notin name_filter.filtered_sentence_ids)
       IN  IF Len(available_sentences) > name_filter.name_limit
           THEN \E to_keep \in RandomSample(available_sentences, name_filter.name_limit) :
                   LET filtered_for_name ==
                           SelectSeq(available_sentences,
                                     LAMBDA s : s.id \notin IdsOf(to_keep))
                   IN  name_filter' =
                           [name_filter EXCEPT
                               !.sentences_to_keep_by_name =
                                   [n \in DOMAIN @ \cup {name_lower} |->
                                       IF n = name_lower THEN to_keep ELSE @[n]],
                               !.filtered_sentences = @ \o filtered_for_name,
                               !.filtered_sentence_ids = @ \cup IdsOf(filtered_for_name),
                               !.next_name = @ + 1]
           ELSE name_filter' =
                    [name_filter EXCEPT
                        !.sentences_to_keep_by_name =
                            [n \in DOMAIN @ \cup {name_lower} |->
                                IF n = name_lower THEN available_sentences ELSE @[n]],
                        !.next_name = @ + 1]

\* Step 3 and the two files: lines 825-927.
FilterWrite ==
    /\ name_filter # <<>>
    /\ name_filter.pc = "names"
    /\ name_filter.next_name > Len(name_filter.sorted_names)
    /\ name_filter' =
           [name_filter EXCEPT
               !.pc = "returned",
               !.output_file =
                   Some(FinalSentences(name_filter.sorted_names,
                                       name_filter.sentences_to_keep_by_name,
                                       name_filter.sentences_without_limited_names)),
               !.filtered_output_file =
                   Some(FilteredRows(name_filter.filtered_sentences,
                                     name_filter.limited_names,
                                     name_filter.limited_names_lower))]

\* The rows of an input file: up to MaxLines rows of distinct ids.
InputFiles ==
    UNION {[1..n -> FilterTexts] : n \in 1..MaxLines}

\* The arguments of a call; the input file exists, the output files do not.
InitFilter ==
    /\ Constructed
    /\ names_csv = Some(CommonNamesCsv)
    /\ inputs = {}
    /\ callers = <<>>
    /\ harness = <<>>
    /\ topic = <<>>
    /\ applied = <<>>
    /\ \E texts \in InputFiles, limited_names \in LimitedNames,
          name_limit_percent \in NameLimitPercents,
          target_size \in {Nothing, Some(2)} :
          name_filter =
              [pc |-> "start",
               input_file |-> [i \in DOMAIN texts |-> [id |-> i, text |-> texts[i]]],
               limited_names |-> limited_names,
               name_limit_percent |-> name_limit_percent,
               target_size |-> target_size,
               name_limit |-> 0,
               limited_names_lower |-> <<>>,
               sentences_by_name |-> <<>>,
               sentences_without_limited_names |-> <<>>,
               sorted_names |-> <<>>,
               next_name |-> 1,
               sentences_to_keep_by_name |-> <<>>,
               filtered_sentences |-> <<>>,
               filtered_sentence_ids |-> {},
               output_file |-> Nothing,
               filtered_output_file |-> Nothing]

NextFilter ==
    \/ FilterRead /\ UNCHANGED <<Classifier, callers, harness, topic, applied>>
    \/ FilterName /\ UNCHANGED <<Classifier, callers, harness, topic, applied>>
    \/ FilterWrite /\ UNCHANGED <<Classifier, callers, harness, topic, applied>>

SpecFilter == InitFilter /\ [][NextFilter]_vars

\* ------------------------------------------------ get_cefr_from_rank()
\* The function applied on its own by a caller that goes through its
\* arguments in order: None, then the ranks from 1 to MaxRank, each together
\* with the rank after it.

\* get_cefr_from_rank(None)
GetCefrFromNone ==
    /\ applied.op = "start"
    /\ applied' = [op |-> "get_cefr_from_rank",
                   rank |-> Nothing,
                   out |-> get_cefr_from_rank(Nothing),
                   next_out |-> None]

\* get_cefr_from_rank(rank) and get_cefr_from_rank(rank + 1), for the rank
\* after the last one.
GetCefrFromRank ==
    /\ applied.op = "get_cefr_from_rank"
    /\ LET rank == IF IsNothing(applied.rank) THEN 1 ELSE Get(applied.rank) + 1
       IN  /\ rank <= MaxRank
           /\ applied' = [op |-> "get_cefr_from_rank",
                          rank |-> Some(rank),
                          out |-> get_cefr_from_rank(Some(rank)),
                          next_out |-> get_cefr_from_rank(Some(rank + 1))]

InitRank ==
    /\ Constructed
    /\ names_csv = Some(CommonNamesCsv)
    /\ inputs = {}
    /\ callers = <<>>
    /\ harness = <<>>
    /\ topic = <<>>
    /\ name_filter = <<>>
    /\ applied = [op |-> "start", rank |-> Nothing, out |-> None, next_out |-> None]

NextRank ==
    \/ GetCefrFromNone /\ UNCHANGED <<Classifier, callers, harness, topic, name_filter>>
    \/ GetCefrFromRank /\ UNCHANGED <<Classifier, callers, harness, topic, name_filter>>

SpecRank == InitRank /\ [][NextRank]_vars

\* ------------------------------------- the level loop on its own
\* Steps 4 and 5 of sentence_difficulty() applied to the counts of a
\* sentence, and again to the counts of a sentence that has one more in one
\* of them.  The counts are those a sentence can have: no more content words
\* than words, no more tallied tokens than words.

Tallies ==
    {counts \in [Levels -> 0..MaxTally] :
        counts["A1"] + counts["A2"] + counts["B1"] + counts["B2"]
            + counts["C1"] + counts["C2"] <= MaxTally}

\* The level loop on the counts that follow those of the last application.
ApplyLevelLoop(words_with_stops, words_without_stops, cefr_counts) ==
    /\ applied.op = "level_loop"
    /\ words_with_stops <= MaxWords
    /\ words_without_stops <= words_with_stops
    /\ cefr_counts \in Tallies
    /\ cefr_counts["A1"] + cefr_counts["A2"] + cefr_counts["B1"] + cefr_counts["B2"]
           + cefr_counts["C1"] + cefr_counts["C2"] <= words_with_stops
    /\ applied' = [applied EXCEPT
                      !.words_with_stops = words_with_stops,
                      !.words_without_stops = words_without_stops,
                      !.cefr_counts = cefr_counts,
                      !.before = applied.out,
                      !.out = LevelLoop(1, ConfigOf(applied.config), words_with_stops,
                                        words_without_stops, cefr_counts)]

\* One more word that is a stop word and is not tallied.
OneMoreWord ==
    ApplyLevelLoop(applied.words_with_stops + 1, applied.words_without_stops,
                   applied.cefr_counts)

\* One more of the words is a content word.
OneMoreContentWord ==
    ApplyLevelLoop(applied.words_with_stops, applied.words_without_stops + 1,
                   applied.cefr_counts)

\* One more of the words is tallied at level l.
OneMoreTallied(l) ==
    ApplyLevelLoop(applied.words_with_stops, applied.words_without_stops,
                   [applied.cefr_counts EXCEPT ![l] = @ + 1])

\* The level loop on a sentence of no words, under any of the configs.
InitSelector ==
    /\ Constructed
    /\ names_csv = Some(CommonNamesCsv)
    /\ inputs = {}
    /\ callers = <<>>
    /\ harness = <<>>
    /\ topic = <<>>
    /\ name_filter = <<>>
    /\ \E name \in ConfigNames :
          LET out == LevelLoop(1, ConfigOf(name), 0, 0, [l \in Levels |-> 0])
          IN  applied = [op |-> "level_loop",
                         config |-> name,
                         words_with_stops |-> 0,
                         words_without_stops |-> 0,
                         cefr_counts |-> [l \in Levels |-> 0],
                         before |-> out,
                         out |-> out]

NextSelector ==
    \/ OneMoreWord /\ UNCHANGED <<Classifier, callers, harness, topic, name_filter>>
    \/ OneMoreContentWord /\ UNCHANGED <<Classifier, callers, harness, topic, name_filter>>
    \/ \E l \in Levels :
          OneMoreTallied(l) /\ UNCHANGED <<Classifier, callers, harness, topic, name_filter>>

SpecSelector == InitSelector /\ [][NextSelector]_vars

\* ============================================================== properties
\* The statements below are written from the specification's words; the
\* ceilings are read from the config tables and compared here, not by
\* LevelSatisfied.

IsDifficulty == ret.op = "sentence_difficulty"

HasTokens == IsDifficulty /\ ret.out.exit # "empty"

DefinesAllLevels(name) == DOMAIN ConfigOf(name) = Levels

Easier(l, m) == Index(l) < Index(m)

NoHarder(l, m) == Index(l) <= Index(m)

\* A count respects a ceiling: it is at most the ceiling, or the ceiling is -1.
Respects(ceiling, count) == ceiling = -1 \/ count <= ceiling

ZeroCounts == [l \in Levels |-> 0]

\* The counts of the sentence the last sentence_difficulty() call was about:
\* those the call worked with, all zero when the sentence had no tokens.
CallWordsWithStops ==
    IF ret.out.exit = "empty" THEN 0 ELSE ret.out.words_with_stops

CallWordsWithoutStops ==
    IF ret.out.exit = "empty" THEN 0 ELSE ret.out.words_without_stops

CallCefrCounts ==
    IF ret.out.exit = "empty" THEN ZeroCounts ELSE ret.out.cefr_counts

WordCeilingsRespected(row) ==
    /\ Respects(row.max_words_with_stops, CallWordsWithStops)
    /\ Respects(row.max_words_without_stops, CallWordsWithoutStops)

\* Level l of the named config admits the sentence of the last call.
Qualifies(name, l) ==
    /\ WordCeilingsRespected(ConfigOf(name)[l])
    /\ \A m \in Levels :
          Respects(ConfigOf(name)[l].level_limits[m], CallCefrCounts[m])

SomeLevelQualifies(name) == \E l \in Levels : Qualifies(name, l)

FirstQualifying(name) ==
    CHOOSE l \in Levels :
        /\ Qualifies(name, l)
        /\ \A e \in Levels : Easier(e, l) => ~Qualifies(name, e)

\* C1 as stated: for every sentence and every config that defines all six
\* levels, sentence_difficulty() returns the first level in A1..C2 order whose
\* word-count and per-level ceilings the sentence's counts all satisfy.
C1_FirstSatisfiedLevel_AsStated ==
    (IsDifficulty /\ DefinesAllLevels(ret.arg) /\ SomeLevelQualifies(ret.arg))
        => (ret.out.exc = None /\ ret.out.val = FirstQualifying(ret.arg))

\* C1 (amended): for every sentence that has at least one token and every
\* config that defines all six levels, sentence_difficulty() returns the first
\* level in A1..C2 order whose ceilings are all satisfied, when there is one;
\* it never returns a level when an easier one is satisfied.
C1_FirstSatisfiedLevel ==
    (HasTokens /\ DefinesAllLevels(ret.arg))
        => /\ ret.out.exc = None
           /\ SomeLevelQualifies(ret.arg) => ret.out.val = FirstQualifying(ret.arg)
           /\ \A e \in Levels : Easier(e, ret.out.val) => ~Qualifies(ret.arg, e)

\* C1 witness: under the caller's own table the loop passed over A1 and A2 and
\* returned a later level that qualifies.
C1_Witness ==
    /\ HasTokens
    /\ ret.arg = "CUSTOM"
    /\ ret.out.exit = "loop"
    /\ ret.out.val \in {"B1", "B2", "C1"}
    /\ Qualifies(ret.arg, ret.out.val)

\* C2 as stated: for any sentence and any supplied config the call returns
\* one of the six levels and never raises.
C2_AlwaysALevel_AsStated ==
    IsDifficulty => (ret.out.exc = None /\ ret.out.val \in Levels)

\* C2 (amended): for any sentence (none set, empty, all tokens excluded
\* included) and any supplied config that defines all six levels, the call
\* returns one of the six levels and never raises; it returns C2 when the
\* sentence has tokens and no level's constraints are satisfied.
C2_AlwaysALevel ==
    (IsDifficulty /\ DefinesAllLevels(ret.arg))
        => /\ ret.out.exc = None
           /\ ret.out.val \in Levels
           /\ (HasTokens /\ ~SomeLevelQualifies(ret.arg)) => ret.out.val = "C2"

\* C2 witness: no level of the caller's table admits the sentence, and the
\* return after the loop gave C2.
C2_Witness ==
    /\ HasTokens
    /\ DefinesAllLevels(ret.arg)
    /\ ~SomeLevelQualifies(ret.arg)
    /\ ret.out.exit = "fallback"
    /\ ret.out.val = "C2"

IsDefault == IsDifficulty /\ ret.arg = None

\* Every token of the sentence is a common name or punctuation, symbol, space.
NamesAndPunctuationOnly ==
    /\ Truthy(doc)
    /\ \A i \in 1..Len(Get(doc)) :
          \/ is_common_name(Get(doc)[i].text)
          \/ Get(doc)[i].pos \in {"PUNCT", "SYM", "SPACE"}

NumberOfNames ==
    Cardinality({i \in 1..Len(Get(doc)) :
                    /\ is_common_name(Get(doc)[i].text)
                    /\ Get(doc)[i].pos \notin {"PUNCT", "SYM", "SPACE"}})

\* C3 as stated: under DEFAULT_DIFFICULTY_CONFIG a sentence of common names
\* and punctuation only, whatever the number of names, has all six counts
\* zero and is classified A1.
C3_NamesOnly_AsStated ==
    (IsDefault /\ NamesAndPunctuationOnly)
        => (CallCefrCounts = ZeroCounts /\ ret.out.val = "A1")

\* C3 (amended): under DEFAULT_DIFFICULTY_CONFIG a sentence of common names
\* and punctuation only has all six counts zero; its names count as words,
\* and it is classified A1 exactly when those word counts are within A1's
\* ceilings (at most 11 words, at most 9 of them not stop words).
C3_NamesOnly ==
    (IsDefault /\ NamesAndPunctuationOnly)
        => /\ ret.out.exc = None
           /\ CallCefrCounts = ZeroCounts
           /\ CallWordsWithStops = NumberOfNames
           /\ ret.out.val = "A1" <=>
                 (CallWordsWithStops <= 11 /\ CallWordsWithoutStops <= 9)

\* C3 witness: nine names and a full stop, classified A1 with no count.
C3_Witness ==
    /\ IsDefault
    /\ NamesAndPunctuationOnly
    /\ NumberOfNames = 9
    /\ Len(Get(doc)) = 10
    /\ CallCefrCounts = ZeroCounts
    /\ ret.out.val = "A1"

IsClassification == ret.op = "classification"

Reported == IF IsClassification THEN ret.out.val ELSE <<>>

\* Both sources are present for a reported token: the dictionary level and
\* the level derived from its word rank.
BothSources(item) ==
    /\ item.cefr_level \in Levels
    /\ get_cefr_from_rank(item.word_rank) \in Levels

NeverEasierThanSources(item) ==
    /\ item.combined_cefr \in Levels
    /\ Index(item.combined_cefr) >= Index(item.cefr_level)
    /\ Index(item.combined_cefr) >= Index(get_cefr_from_rank(item.word_rank))

\* The two cases where classification() does not merge the sources: the
\* word is in the override table, or it is a numeral with digits.
Overridden(item) ==
    \/ Lower(item.text) \in DOMAIN HARDCODED_CEFR_LEVELS
    \/ item.pos = "NUM" /\ CountD(item.shape) > 0

\* C4 as stated: every token reported by classification() with both a
\* dictionary level and a rank-derived level has a combined_cefr at least as
\* hard as each of the two.
C4_HarderWins_AsStated ==
    \A i \in 1..Len(Reported) :
        BothSources(Reported[i]) => NeverEasierThanSources(Reported[i])

\* C4 (amended): every token reported by classification() with both a
\* dictionary level and a rank-derived level, whose lowercased text is not in
\* the override table and which is not a NUM token with a digit in its shape,
\* has a combined_cefr at least as hard as each of the two.
C4_HarderWins ==
    \A i \in 1..Len(Reported) :
        (BothSources(Reported[i]) /\ ~Overridden(Reported[i]))
            => NeverEasierThanSources(Reported[i])

\* C4 witness: a reported word the dictionary puts at C1 and its rank at C2,
\* reported at C2.
C4_Witness ==
    \E i \in 1..Len(Reported) :
        /\ ~Overridden(Reported[i])
        /\ Reported[i].cefr_level = "C1"
        /\ get_cefr_from_rank(Reported[i].word_rank) = "C2"
        /\ Reported[i].combined_cefr = "C2"

\* The three classes of a token of the sentence, from the annotation.
ExcludedFromWords(token) == token.pos \in {"PUNCT", "SYM", "SPACE"}

ExcludedFromTally(token) ==
    /\ ~ExcludedFromWords(token)
    /\ is_common_name(token.text) \/ token.pos = "PROPN"

Tallied(token) == ~ExcludedFromWords(token) /\ ~ExcludedFromTally(token)

NumberOf(Class(_)) ==
    Cardinality({i \in 1..Len(Get(doc)) : Class(Get(doc)[i])})

RECURSIVE SumCounts(_, _)
SumCounts(counts, i) ==
    IF i > Len(cefr_levels) THEN 0
    ELSE counts[cefr_levels[i]] + SumCounts(counts, i + 1)

\* C5: in sentence_difficulty() every token is in exactly one of three
\* classes: excluded from the word counts (PUNCT, SYM, SPACE), counted as a
\* word and excluded from the tally (name or proper noun), or counted as a
\* word and adding one to exactly one of the six counts; so the six counts sum
\* to the word count with function words minus the counted tokens excluded
\* from the tally.
C5_ThreeClasses ==
    HasTokens =>
        /\ ret.out.words_with_stops
              = Len(Get(doc)) - NumberOf(ExcludedFromWords)
        /\ SumCounts(ret.out.cefr_counts, 1) = NumberOf(Tallied)
        /\ SumCounts(ret.out.cefr_counts, 1)
              = ret.out.words_with_stops - NumberOf(ExcludedFromTally)

\* C5 witness: "Mark's cat." has a token of each class.
C5_Witness ==
    /\ HasTokens
    /\ NumberOf(ExcludedFromWords) = 1
    /\ NumberOf(ExcludedFromTally) = 1
    /\ NumberOf(Tallied) = 2
    /\ SumCounts(ret.out.cefr_counts, 1) = 2
    /\ ret.out.words_with_stops = 3

Probed == ~IsNothing(probe)

\* The call just made repeats the kept query on the same token sequence.
RepeatsProbe ==
    /\ Probed
    /\ ret.op = Get(probe).op
    /\ ret.arg = Get(probe).arg
    /\ cur = Some(Get(probe).input)

\* C6: on one instance, for any sequence of sentence(), classification(),
\* sentence_difficulty() and get_max_word_rank() calls, what a query returns
\* for a sentence depends only on its token sequence and the config: the same
\* query on the same token sequence, with other sentences classified in
\* between, returns the same word counts, tallies, maxRank and level.
C6_SameSentenceSameResult ==
    RepeatsProbe => ret.out = Get(probe).out

\* C6 witness: a sentence was classified, another one was classified after
\* it, and the first was set and classified again with the same outcome.
C6_Witness ==
    /\ RepeatsProbe
    /\ Get(probe).between
    /\ Get(probe).op = "sentence_difficulty"
    /\ Len(Get(probe).input.tokens) = 2
    /\ ret.out.val \in Levels
    /\ ret.out = Get(probe).out

\* The text last passed to sentence() is one the pipeline failed on.
AnnotationFailed == text = Some(<<W_too_long>>)

\* C7: if the annotation of the text passed to sentence() fails, or yields
\* an empty token stream, the classification of that text degrades to the
\* empty-sentence result: no exception reaches the caller and
\* sentence_difficulty() (here with the default config) returns A1.
C7_AnnotationFailureIsA1 ==
    /\ ret.op = "sentence" => ret.out.exc = None
    /\ (IsDefault /\ (AnnotationFailed \/ ~Truthy(doc)))
          => (ret.out.exc = None /\ ret.out.val = "A1")

\* C7, the part about the level alone: after a sentence() whose annotation
\* failed, sentence_difficulty() with the default config returns A1.
C7_LevelAfterFailure ==
    (IsDefault /\ AnnotationFailed) => ret.out.val = "A1"

\* C8: when no sentence has been set or the sentence has no tokens,
\* sentence_difficulty() returns A1 for every config, before any constraint
\* of the config is looked at, also for a config whose A1 row nothing
\* satisfies or that lacks rows.
C8_EmptyIsA1 ==
    (IsDifficulty /\ ~Truthy(doc))
        => /\ ret.out.val = "A1"
           /\ ret.out.exc = None
           /\ ret.out.exit = "empty"

\* C8 witness: the empty text was set and classified A1 under the config
\* whose A1 row admits no sentence.
C8_Witness ==
    /\ IsDifficulty
    /\ doc = Some(<<>>)
    /\ ret.arg = "UNSAT_A1"
    /\ ~Qualifies("UNSAT_A1", "A1")
    /\ ret.out.val = "A1"

WithinA1WordCeilings ==
    /\ CallWordsWithStops <= DEFAULT_DIFFICULTY_CONFIG["A1"].max_words_with_stops
    /\ CallWordsWithoutStops
          <= DEFAULT_DIFFICULTY_CONFIG["A1"].max_words_without_stops

OneB2RestA1 ==
    /\ CallCefrCounts["B2"] = 1
    /\ \A m \in Levels \ {"A1", "B2"} : CallCefrCounts[m] = 0

\* C9: under DEFAULT_DIFFICULTY_CONFIG the level returned is never easier
\* than the hardest level with a non-zero count; a sentence within A1's word
\* ceilings with one token tallied B2 and all others tallied A1 is B2.
C9_NeverEasierThanHardestToken ==
    IsDefault =>
        /\ ret.out.exc = None
        /\ \A m \in Levels :
              CallCefrCounts[m] > 0 => NoHarder(m, ret.out.val)
        /\ (WithinA1WordCeilings /\ OneB2RestA1) => ret.out.val = "B2"

\* C9 witness: a short sentence with A1 tokens and one B2 token, classified B2.
C9_Witness ==
    /\ IsDefault
    /\ WithinA1WordCeilings
    /\ OneB2RestA1
    /\ CallCefrCounts["A1"] >= 2
    /\ ret.out.val = "B2"

IsPreset == IsDifficulty /\ ret.arg \in {None, "APPROX"}

\* C10: for every sentence and either preset, the returned level's word-count
\* ceilings are respected by the sentence (each is -1 or at least the count);
\* a sentence with 35 words that are not stop words is C1 or harder, also
\* when every token is tallied A1.
C10_WordCeilingsRespected ==
    IsPreset =>
        /\ ret.out.exc = None
        /\ ret.out.val \in Levels
        /\ WordCeilingsRespected(ConfigOf(ret.arg)[ret.out.val])
        /\ CallWordsWithoutStops = 35 => ret.out.val \in {"C1", "C2"}

\* C10 witness: 35 words, none a stop word, all tallied A1, classified C1 or
\* harder under a preset.
C10_Witness ==
    /\ IsPreset
    /\ CallWordsWithoutStops = 35
    /\ CallCefrCounts["A1"] = 35
    /\ ret.out.val \in {"C1", "C2"}

\* The entries classification() reports for the sentence now set.
Items == classification

\* A reported token that is counted as a word and is not a name or proper noun.
TalliedItem(item) ==
    /\ item.pos \notin {"PUNCT", "SYM", "SPACE"}
    /\ ~item.is_name
    /\ item.pos # "PROPN"

Unclassified(item) == TalliedItem(item) /\ item.combined_cefr = None

NumberOfItems(Class(_)) ==
    Cardinality({i \in 1..Len(Items) : Class(Items[i])})

NumberAt(l) ==
    Cardinality({i \in 1..Len(Items) :
                    TalliedItem(Items[i]) /\ Items[i].combined_cefr = l})

\* C11: a token with no override entry, no dictionary level and no rank
\* (combined_cefr is None) that is counted as a word and is not a name or
\* proper noun adds one to the B2 count and to no other: every count is the
\* number of tallied tokens reported at that level, plus, for B2 alone, the
\* number of tallied tokens without a level.
C11_UnclassifiedIsB2 ==
    HasTokens =>
        \A l \in Levels :
            ret.out.cefr_counts[l]
                = NumberAt(l) + (IF l = "B2" THEN NumberOfItems(Unclassified) ELSE 0)

\* C11 witness: a sentence of an A1 word and a word known to no source; the
\* counts are one A1 and one B2, none C2.
C11_Witness ==
    /\ HasTokens
    /\ NumberOfItems(Unclassified) = 1
    /\ \E i \in 1..Len(Items) :
          /\ Unclassified(Items[i])
          /\ Lower(Items[i].text) \notin DOMAIN HARDCODED_CEFR_LEVELS
          /\ Items[i].cefr_level = None
          /\ IsNothing(Items[i].word_rank)
    /\ NumberAt("A1") = 1
    /\ NumberAt("B2") = 0
    /\ ret.out.cefr_counts["B2"] = 1
    /\ ret.out.cefr_counts["C2"] = 0

IsMaxRank == ret.op = "get_max_word_rank"

\* A NUM token whose shape contains digits.
DigitNumeral(token) == token.pos = "NUM" /\ CountD(token.shape) > 0

\* The score of a numeral by its digit count, as the specification gives it.
DigitCountRank(token) ==
    IF CountD(token.shape) = 1 THEN 500
    ELSE IF CountD(token.shape) = 2 THEN 1000
    ELSE 2000

DigitCountLevel(token) ==
    IF CountD(token.shape) = 1 THEN "A1"
    ELSE IF CountD(token.shape) = 2 THEN "A2"
    ELSE "B1"

LoneToken == Truthy(doc) /\ Len(Get(doc)) = 1

OneAt(l) == [m \in Levels |-> IF m = l THEN 1 ELSE 0]

\* What the calls return for a sentence that is one digit numeral, and the
\* least they return for a sentence that contains one.
ScoredByDigitCount(token) ==
    /\ get_cefr_from_rank(Some(DigitCountRank(token))) = DigitCountLevel(token)
    /\ IsMaxRank =>
          /\ ret.out.val >= DigitCountRank(token)
          /\ LoneToken => ret.out.val = DigitCountRank(token)
    /\ HasTokens =>
          /\ ret.out.cefr_counts[DigitCountLevel(token)] >= 1
          /\ LoneToken => ret.out.cefr_counts = OneAt(DigitCountLevel(token))

\* C12 as stated: a NUM token whose shape contains digits is scored from its
\* digit count alone, 500 and A1 for one digit, 1000 and A2 for two, 2000 and
\* B1 for more, whatever the frequency list and the dictionary say; the rank
\* contributed and the level tallied correspond under get_cefr_from_rank.
C12_DigitScore_AsStated ==
    Truthy(doc) =>
        \A i \in 1..Len(Get(doc)) :
            DigitNumeral(Get(doc)[i]) => ScoredByDigitCount(Get(doc)[i])

\* C12 (amended): the same for a NUM token with digits that is neither a
\* common name nor inside a named entity.  (A common name contributes 300 and
\* is not tallied; a named entity contributes 20001 and is tallied at its
\* digit level.)
C12_DigitScore ==
    Truthy(doc) =>
        \A i \in 1..Len(Get(doc)) :
            (/\ DigitNumeral(Get(doc)[i])
             /\ ~is_common_name(Get(doc)[i].text)
             /\ Get(doc)[i].ent_type = "")
                => ScoredByDigitCount(Get(doc)[i])

\* C12 witness: the numeral 7, listed at rank 1500 and A2 in the dictionary,
\* alone in its sentence, gives a maximum rank of 500.
C12_Witness ==
    /\ IsMaxRank
    /\ LoneToken
    /\ DigitNumeral(Get(doc)[1])
    /\ Get(doc)[1].ent_type = ""
    /\ get_word_rank(Get(doc)[1].text, Get(doc)[1].lemma) = Some(1500)
    /\ get_cefr_level(Get(doc)[1].text, FALSE) = "A2"
    /\ ret.out.val = 500

IsWord(token) == token.pos \notin {"PUNCT", "SYM", "SPACE"}

IsContentWord(token) == IsWord(token) /\ ~token.is_stop

\* C13: the word count with function words is the number of tokens whose POS
\* is not PUNCT, SYM or SPACE, the count without them the number of those
\* that are not stop words; numerals, common names and named entities are in
\* both, and without <= with <= number of tokens.
C13_WordCounts ==
    HasTokens =>
        /\ ret.out.words_with_stops = NumberOf(IsWord)
        /\ ret.out.words_without_stops = NumberOf(IsContentWord)
        /\ ret.out.words_without_stops <= ret.out.words_with_stops
        /\ ret.out.words_with_stops <= Len(Get(doc))

\* C13 witness: "the cat 25 ." has four tokens, three words with the stop
\* word and two without, the numeral among them.
C13_Witness ==
    /\ HasTokens
    /\ Len(Get(doc)) = 4
    /\ \E i \in 1..4 : Get(doc)[i].pos = "NUM" /\ IsContentWord(Get(doc)[i])
    /\ \E i \in 1..4 : Get(doc)[i].is_stop
    /\ ret.out.words_with_stops = 3
    /\ ret.out.words_without_stops = 2

\* A reported token on whose text the dictionary lookup raises.
LookupRaises(item) ==
    get_average_word_level_CEFR(Lower(item.text)).exc # None

\* What an unlisted word is reported with: no dictionary level, and the
\* level of its rank or none.
ReportedAsUnlisted(item) ==
    /\ item.cefr_level = None
    /\ ~Overridden(item) => item.combined_cefr = get_cefr_from_rank(item.word_rank)

\* C14: get_cefr_level never propagates a failure of the dictionary: when
\* the lookup raises it gives None, and the token and the sentence are
\* classified with the rank-derived level, or the B2 default, as for an
\* unlisted word; nothing is raised to the caller.
C14_DictionaryFailureSwallowed ==
    /\ \A i \in 1..Len(Reported) :
          LookupRaises(Reported[i])
              => (ret.out.exc = None /\ ReportedAsUnlisted(Reported[i]))
    /\ (HasTokens /\ DefinesAllLevels(ret.arg) /\ LoneToken
          /\ LookupRaises(Items[1]) /\ TalliedItem(Items[1]) /\ ~Overridden(Items[1]))
          => /\ ret.out.exc = None
             /\ ret.out.cefr_counts =
                   OneAt(IF IsNothing(Items[1].word_rank) THEN "B2"
                         ELSE get_cefr_from_rank(Items[1].word_rank))

\* C14 witness: a word the frequency list lacks and on which the dictionary
\* raises, not an entity, alone in its sentence, tallied B2.
C14_Witness ==
    /\ HasTokens
    /\ LoneToken
    /\ Get(doc)[1].ent_type = ""
    /\ LookupRaises(Items[1])
    /\ TalliedItem(Items[1])
    /\ IsNothing(Items[1].word_rank)
    /\ ret.out.exc = None
    /\ ret.out.cefr_counts = OneAt("B2")

\* A table that has been populated is the same after the step.
KeptOncePopulated(table, table_after) == ~IsNothing(table) => table_after = table

\* C15: the rank index and the common-names set are populated at most once,
\* on first access, and no later sentence(), classification(),
\* sentence_difficulty() or rank query changes them.  (The config tables are
\* constants of the module: no call assigns to them.)
C15_TablesWriteOnce ==
    [][/\ KeptOncePopulated(top_20k_words, top_20k_words')
       /\ KeptOncePopulated(word_rank_dict, word_rank_dict')
       /\ KeptOncePopulated(common_names, common_names')
       /\ names_csv' = names_csv]_vars

\* C15 witness: the tables were built by a query, other sentences were set
\* and queried after it, and the tables hold what the first access loaded.
C15_Witness ==
    /\ Probed
    /\ Get(probe).between
    /\ ret.op = "sentence_difficulty"
    /\ top_20k_words = Some(top_n_list)
    /\ word_rank_dict = Some(RankDictOfTopList)
    /\ common_names = Some(LoadCommonNames)
    /\ LoadCommonNames # {}

\* The level a classifier gives a text under the default config.
LevelOfText(x) == DifficultyOf(DocOf(x), None).val

Done(c) == callers # <<>> /\ callers[c].pc = "done"

\* C16 as stated: the rank index and the names set are the only state calls
\* share: two callers of one instance that each call sentence(x) and then
\* sentence_difficulty() obtain, under every interleaving, the level of
\* their own x.
C16_OwnLevel_AsStated ==
    \A c \in Callers :
        Done(c) => callers[c].level = LevelOfText(Get(callers[c].x))

\* C16 (amended): self.doc and self.text are shared as well: a caller's
\* sentence_difficulty() returns the level of the text last set on the
\* instance by any caller, which is the level of its own x when no other
\* caller's sentence() with another text ran in between.
C16_LevelOfTextLastSet ==
    \A c \in Callers :
        Done(c) =>
            /\ callers[c].level = LevelOfText(Get(callers[c].held).tokens)
            /\ Get(callers[c].held).tokens = Get(callers[c].x)
                  => callers[c].level = LevelOfText(Get(callers[c].x))

\* C16 witness: a caller set an A1 text, the other caller set a B2 text
\* before the first asked, and the first was given B2.
C16_Witness ==
    \E c \in Callers :
        /\ Done(c)
        /\ LevelOfText(Get(callers[c].x)) = "A1"
        /\ Get(callers[c].held).tokens # Get(callers[c].x)
        /\ callers[c].level = "B2"

\* The level a newly constructed classifier gives a text when it is the only
\* text it is given.
FreshLevel(x) == SentenceDifficultyOf(Some(DocOf(x)), None).val

RowsRight(rows) ==
    \A k \in 1..Len(rows) : rows[k].predicted = FreshLevel(rows[k].sentence)

\* C17: every batch constructs its own classifier, so under any scheduling
\* and completion order each result row pairs a sentence with the level a
\* fresh classifier gives that sentence, the rows of a batch are its
\* sentences in order, and a worker about to ask for the level holds the Doc
\* of its own current sentence.
C17_RowsOfOwnSentence ==
    harness # <<>> =>
        /\ RowsRight(harness.results)
        /\ \A b \in DOMAIN harness.workers :
              LET w == harness.workers[b]
              IN  /\ RowsRight(w.results)
                  /\ \A k \in 1..Len(w.results) :
                        w.results[k].sentence = harness.batches[b][k].tokens
                  /\ w.pc = "difficulty" =>
                        harness.classifiers[b]
                            = Some(DocOf(harness.batches[b][w.i].tokens))

\* C17 witness: two batches ran at the same time, the second returned and
\* was collected first, and all eleven rows are in the results.
C17_Witness ==
    /\ harness # <<>>
    /\ harness.num_workers = 2
    /\ Len(harness.batches) = 2
    /\ Len(harness.results) = Len(harness.all_sentences)
    /\ harness.results[1].sentence = harness.batches[2][1].tokens
    /\ \E k \in 1..Len(harness.results) : harness.results[k].predicted = "A1"
    /\ \E k \in 1..Len(harness.results) : harness.results[k].predicted = "C2"

InTopicCall == topic # <<>>

TopicRows == IF InTopicCall THEN DOMAIN topic.df ELSE {}

\* C18: in classify_dataframe() a sentence is handed to individual
\* processing only after its batch failed in each of the max_passes passes;
\* no sentence goes into a batch call more than max_passes times; a sentence
\* that a batch call gave a result goes into no later batch call and not to
\* the individual fallback.
C18_FallbackOnlyAfterAllPasses ==
    /\ [](\A idx \in TopicRows :
            /\ topic.individual[idx] => topic.failed_in[idx] = 1..topic.max_passes
            /\ topic.submitted[idx] <= topic.max_passes
            /\ topic.succeeded[idx] => ~topic.individual[idx])
    /\ [][\A idx \in TopicRows :
            topic.succeeded[idx] => topic'.submitted[idx] = topic.submitted[idx]]_vars

\* C18 witness: after two passes one sentence is with the individual
\* fallback, failed in both, and another succeeded in the second pass after
\* failing in the first.
C18_Witness ==
    /\ InTopicCall
    /\ topic.pc = "individual"
    /\ topic.max_passes = 2
    /\ \E idx \in TopicRows :
          /\ topic.individual[idx]
          /\ topic.failed_in[idx] = {1, 2}
          /\ topic.submitted[idx] = 2
    /\ \E idx \in TopicRows :
          /\ topic.succeeded[idx]
          /\ topic.failed_in[idx] = {1}
          /\ topic.submitted[idx] = 2
          /\ ~topic.individual[idx]

TopicReturned == InTopicCall /\ topic.pc = "returned"

\* Every row that needed processing has topics: a batch result, an
\* individual result, or the empty string.
AllAssigned ==
    \A idx \in topic.needed : topic.df[idx] \in {"batch", "individual", ""}

\* C19: classify_dataframe() terminates for every pattern of batch and
\* individual call failures, and on return every row that needed processing
\* has a topics value (batch result, individual result, or the empty string
\* when the individual call failed); none is left unassigned.
C19_TerminatesAllAssigned ==
    /\ <>TopicReturned
    /\ [](TopicReturned => AllAssigned)

\* C19 witness: the call returned with a row from a batch, a row from an
\* individual call and a row left empty by a failed individual call.
C19_Witness ==
    /\ TopicReturned
    /\ \E idx \in topic.needed : topic.df[idx] = "batch"
    /\ \E idx \in topic.needed : topic.df[idx] = "individual"
    /\ \E idx \in topic.needed : topic.df[idx] = ""
    /\ topic.error_count > 0

\* ---------------------------------------------------------------- C20
\* The call of filter_by_name_limits() has returned and written its output.
FilterReturned == name_filter # <<>> /\ name_filter.pc = "returned"

\* The number of rows of the written output that contain the name.
NumberContaining(rows, name_lower) ==
    Len(SelectSeq(rows, LAMBDA row : ContainsName(Lower(row.text), name_lower)))

\* C20: after filter_by_name_limits, for every limited name the number of
\* sentences of the written output that contain the name is at most
\* name_limit, whatever sentences the random choice kept and also when
\* sentences contain several limited names.
C20_EveryNameWithinLimit ==
    FilterReturned =>
        \A i \in DOMAIN name_filter.limited_names_lower :
            NumberContaining(Get(name_filter.output_file),
                             name_filter.limited_names_lower[i])
                <= name_filter.name_limit

\* ---------------------------------------------------------------- C21
IsAverageRank == ret.op = "get_average_word_rank"

\* A token of the name rule or of the entity rule (rules 1 and 2).
NameOrEntity(token) ==
    is_common_name(token.text) \/ token.ent_type # "" \/ token.pos = "PROPN"

\* A token whose lowercased text is in the override table and that is neither
\* a common name nor a named entity or proper noun (rule 3).
OverrideToken(token) ==
    /\ Lower(token.text) \in DOMAIN HARDCODED_CEFR_LEVELS
    /\ ~NameOrEntity(token)

IsWordNotOverridden(token) == IsWord(token) /\ ~OverrideToken(token)

IsContentWordNotOverridden(token) == IsContentWord(token) /\ ~OverrideToken(token)

\* A token that adds a rank to the list behind maxRank and averageRank.
AddsRank(token) ==
    \/ NameOrEntity(token)
    \/ ~OverrideToken(token) /\ IsWord(token)

\* The rank list has as many entries as tokens that add a rank: averageRank
\* divides by that number, and both aggregates are 0 when it is 0.
RankListLeavesOutOverrides ==
    /\ (IsAverageRank /\ NumberOf(AddsRank) > 0)
          => ret.out.val.len = NumberOf(AddsRank)
    /\ (IsAverageRank /\ NumberOf(AddsRank) = 0)
          => ret.out.val = [sum |-> 0, len |-> 1]
    /\ (IsMaxRank /\ NumberOf(AddsRank) = 0) => ret.out.val = 0

OverrideWord(token) == OverrideToken(token) /\ IsWord(token)

OverrideContentWord(token) == OverrideToken(token) /\ IsContentWord(token)

\* An override token of a word POS, tallied at the level the table gives.
OverrideWordAt(l) ==
    Cardinality({i \in 1..Len(Get(doc)) :
                    /\ OverrideToken(Get(doc)[i])
                    /\ IsWord(Get(doc)[i])
                    /\ HARDCODED_CEFR_LEVELS[Lower(Get(doc)[i].text)] = l})

\* C21 as stated: a token whose lowercased text is in the override table (and
\* that is neither a common name nor a named entity or proper noun) adds
\* nothing to the word count with function words, to the word count without
\* them, or to the rank list behind maxRank and averageRank.
C21_OverrideExcluded_AsStated ==
    Truthy(doc) =>
        /\ RankListLeavesOutOverrides
        /\ HasTokens =>
              /\ ret.out.words_with_stops = NumberOf(IsWordNotOverridden)
              /\ ret.out.words_without_stops = NumberOf(IsContentWordNotOverridden)

\* C21 (amended): such a token adds nothing to the rank list; in
\* sentence_difficulty() it is a word like any other: unless its POS is
\* PUNCT, SYM or SPACE it is in the word count with function words, unless it
\* is also a stop word in the count without them, and it is tallied at the
\* level the override table gives.
C21_OverrideUnranked ==
    Truthy(doc) =>
        /\ RankListLeavesOutOverrides
        /\ HasTokens =>
              /\ ret.out.words_with_stops
                    = NumberOf(IsWordNotOverridden) + NumberOf(OverrideWord)
              /\ ret.out.words_without_stops
                    = NumberOf(IsContentWordNotOverridden)
                      + NumberOf(OverrideContentWord)
              /\ \A l \in Levels : ret.out.cefr_counts[l] >= OverrideWordAt(l)

\* C21 witness: "cat p.m." averages over the one rank of "cat" (400), the
\* listed rank of "p.m." (2500) left out.
C21_Witness ==
    /\ Truthy(doc)
    /\ IsAverageRank
    /\ Len(Get(doc)) = 2
    /\ NumberOf(OverrideToken) = 1
    /\ \E i \in 1..2 :
          /\ OverrideToken(Get(doc)[i])
          /\ IsWord(Get(doc)[i])
          /\ get_word_rank(Get(doc)[i].text, Get(doc)[i].lemma) = Some(2500)
    /\ ret.out.val = [sum |-> 400, len |-> 1]

\* ---------------------------------------------------------------- C22
\* A token that is a named entity or has POS PROPN.
EntityOrProperNoun(token) == token.ent_type # "" \/ token.pos = "PROPN"

\* A token counted as a word that is neither a named entity nor a proper noun.
WordOutsideEntities(token) == IsWord(token) /\ ~EntityOrProperNoun(token)

\* C22: a token that is a named entity or has POS PROPN increments none of
\* the six counts of the CEFR tally, whatever its POS, rank or dictionary
\* level: the counts sum to at most the number of words that are neither, and
\* a sentence of entities and proper nouns alone has all six counts zero.
C22_EntitiesNotTallied ==
    HasTokens =>
        /\ SumCounts(ret.out.cefr_counts, 1) <= NumberOf(WordOutsideEntities)
        /\ NumberOf(WordOutsideEntities) = 0 => ret.out.cefr_counts = ZeroCounts

\* ---------------------------------------------------------------- C23
IsCommonName(token) == is_common_name(token.text)

\* A counted word that is not a common name.
WordNotName(token) == IsWord(token) /\ ~IsCommonName(token)

AllCommonNames == NumberOf(IsCommonName) = Len(Get(doc))

\* C23: a common-name token always takes rule 1: it contributes exactly rank
\* 300 to the rank aggregates and increments none of the six counts, whether
\* or not it is also a named entity, tagged PROPN or NUM, has digits in its
\* shape, or has a frequency rank or dictionary level.  Every name adds one
\* entry of 300 to the rank list, so a sentence of names alone has maximum
\* rank 300, an average of 300 over its length and all counts zero; in any
\* sentence the counts sum to at most the number of words that are not names.
C23_CommonNameIs300 ==
    Truthy(doc) =>
        /\ IsMaxRank =>
              /\ NumberOf(IsCommonName) > 0 => ret.out.val >= 300
              /\ AllCommonNames => ret.out.val = 300
        /\ IsAverageRank =>
              /\ NumberOf(IsCommonName) > 0 =>
                    /\ ret.out.val.len >= NumberOf(IsCommonName)
                    /\ ret.out.val.sum >= 300 * NumberOf(IsCommonName)
              /\ AllCommonNames =>
                    ret.out.val = [sum |-> 300 * Len(Get(doc)), len |-> Len(Get(doc))]
        /\ HasTokens =>
              /\ SumCounts(ret.out.cefr_counts, 1) <= NumberOf(WordNotName)
              /\ AllCommonNames => ret.out.cefr_counts = ZeroCounts

\* C23 witness: the name "K9", tagged NUM inside a named entity and with a
\* digit in its shape, alone in its sentence: the maximum rank is 300, not the
\* 500 of a one-digit numeral nor the 20001 of an entity.
C23_Witness ==
    /\ IsMaxRank
    /\ LoneToken
    /\ IsCommonName(Get(doc)[1])
    /\ Get(doc)[1].pos = "NUM"
    /\ Get(doc)[1].ent_type # ""
    /\ CountD(Get(doc)[1].shape) = 1
    /\ ret.out.val = 300

\* ---------------------------------------------------------------- C24
\* The reported token has no override entry and no dictionary level.
NoDictionaryLevel(item) ==
    /\ Lower(item.text) \notin DOMAIN HARDCODED_CEFR_LEVELS
    /\ item.cefr_level = None
    /\ item.digit_difficulty = None

\* The frequency rank of the word itself, the lemma left aside.
OwnRank(word) ==
    IF Lower(word) \in DOMAIN RankDictOfTopList
    THEN Some(RankDictOfTopList[Lower(word)])
    ELSE Nothing

\* C24 as stated: when a word has no dictionary level (and no override), its
\* combined level is get_cefr_from_rank of the word's own frequency rank only;
\* the lemma's rank never changes it, so two tokens with the same text and
\* different lemmas get the same combined level.
C24_LemmaNeverCounts_AsStated ==
    IsClassification =>
        \A i \in 1..Len(Reported) :
            NoDictionaryLevel(Reported[i]) =>
                Reported[i].combined_cefr = get_cefr_from_rank(OwnRank(Reported[i].text))

\* C24 (amended): when a word has no dictionary level (and no override) and
\* the token is not a digit numeral, its combined level is get_cefr_from_rank
\* of the rank reported as word_rank: the word's own rank when the word is in
\* the frequency list, else the rank of its lemma, else none.  Two tokens
\* with the same text get the same combined level only when the text is
\* listed or both lemmas are unlisted or fall in the same bucket.
C24_WordRankWithLemmaFallback ==
    IsClassification =>
        \A i \in 1..Len(Reported) :
            NoDictionaryLevel(Reported[i]) =>
                /\ Reported[i].combined_cefr = get_cefr_from_rank(Reported[i].word_rank)
                /\ Reported[i].word_rank =
                      IF ~IsNothing(OwnRank(Reported[i].text))
                      THEN OwnRank(Reported[i].text)
                      ELSE IF Len(Reported[i].lemma) > 0
                      THEN OwnRank(Reported[i].lemma)
                      ELSE Nothing

\* C24 witness: "kitties", unlisted and without dictionary level, with the
\* lemma "cat" (rank 400): the combined level is A1, that of the lemma.
C24_Witness ==
    /\ IsClassification
    /\ Len(Reported) = 1
    /\ NoDictionaryLevel(Reported[1])
    /\ IsNothing(OwnRank(Reported[1].text))
    /\ Reported[1].lemma_rank = Some(400)
    /\ Reported[1].combined_cefr = "A1"

\* ---------------------------------------------------------------- C25
\* A token of rule 2: not a common name, and a named entity or proper noun.
UnnamedEntity(token) == ~IsCommonName(token) /\ EntityOrProperNoun(token)

AllUnnamedEntities == NumberOf(UnnamedEntity) = Len(Get(doc))

\* C25: a token that is not a common name and is a named entity or has POS
\* PROPN always contributes exactly 20001 to the rank aggregates, whether or
\* not its text or lemma has a frequency rank, and also when its POS is NUM,
\* PUNCT, SYM or SPACE.  The maximum rank of a sentence that contains one is
\* 20001 (no token contributes more), and a sentence of such tokens alone
\* averages 20001 over its length.
C25_EntityIs20001 ==
    (Truthy(doc) /\ NumberOf(UnnamedEntity) > 0) =>
        /\ IsMaxRank => ret.out.val = 20001
        /\ IsAverageRank =>
              /\ ret.out.val.len >= NumberOf(UnnamedEntity)
              /\ ret.out.val.sum >= 20001 * NumberOf(UnnamedEntity)
              /\ AllUnnamedEntities =>
                    ret.out.val = [sum |-> 20001 * Len(Get(doc)),
                                   len |-> Len(Get(doc))]

\* C25 witness: "Paris" (rank 3000), a proper noun inside an entity, and a
\* second such token: the average is 20001 over two tokens.
C25_Witness ==
    /\ Truthy(doc)
    /\ IsAverageRank
    /\ Len(Get(doc)) = 2
    /\ AllUnnamedEntities
    /\ \E i \in 1..2 :
          get_word_rank(Get(doc)[i].text, Get(doc)[i].lemma) = Some(3000)
    /\ ret.out.val = [sum |-> 40002, len |-> 2]

\* C25 witness, second case: a numeral with a digit, listed at rank 1500,
\* inside an entity contributes 20001 and not its digit rank.
C25_WitnessNumeral ==
    /\ IsMaxRank
    /\ LoneToken
    /\ UnnamedEntity(Get(doc)[1])
    /\ DigitNumeral(Get(doc)[1])
    /\ get_word_rank(Get(doc)[1].text, Get(doc)[1].lemma) = Some(1500)
    /\ ret.out.val = 20001

\* ---------------------------------------------------------------- C27
\* A NUM token without digits in its shape that is not a name or entity.
WrittenNumeral(token) ==
    /\ token.pos = "NUM"
    /\ CountD(token.shape) = 0
    /\ ~NameOrEntity(token)

ThresholdRanks == {500, 1000, 2000, 5000, 10000, 20001}

\* The rank the frequency list gives the token (its text, else its lemma).
ActualRank(token) == get_word_rank(token.text, token.lemma)

\* The contribution of the one token of the sentence is the representative
\* threshold of the bucket of its word rank.
ThresholdOfBucket ==
    LET word_rank == ActualRank(Get(doc)[1])
    IN  /\ ret.out.val \in ThresholdRanks
        /\ ~IsNothing(word_rank) =>
              /\ ret.out.val >= Get(word_rank)
              /\ get_cefr_from_rank(Some(ret.out.val))
                    = get_cefr_from_rank(word_rank)
        /\ (IsNothing(word_rank) \/ get_cefr_from_rank(word_rank) = "C2")
              => ret.out.val = 20001

\* C27 as stated: for a NUM token without digits in its shape (not a name or
\* entity) the rank contribution is the representative threshold of the CEFR
\* bucket of its word rank: it is one of 500, 1000, 2000, 5000, 10000, 20001,
\* it is never smaller than the word's rank, and get_cefr_from_rank of the
\* contribution equals get_cefr_from_rank of the word rank; it is 20001 when
\* the word has no rank or its bucket is C2.  It fails for a numeral whose
\* text is in the override table: "p.m." tagged NUM contributes no rank.
C27_WrittenNumeralThreshold_AsStated ==
    (IsMaxRank /\ LoneToken /\ WrittenNumeral(Get(doc)[1])) => ThresholdOfBucket

\* C27 amended: for a NUM token without digits in its shape that is not a
\* name or entity and whose lowercased text is not in the override table,
\* the rank contribution is the representative threshold of the CEFR bucket
\* of its word rank, as above; such a token whose text is in the override
\* table contributes no rank, and the largest rank of the sentence that is
\* this one token is 0.
C27_WrittenNumeralThreshold ==
    (IsMaxRank /\ LoneToken /\ WrittenNumeral(Get(doc)[1])) =>
        IF OverrideToken(Get(doc)[1])
        THEN _get_sentence_ranks = <<>> /\ ret.out.val = 0
        ELSE ThresholdOfBucket

\* C27 witness: "dozen" as a numeral, listed at rank 900 (A2) and not in the
\* override table, contributes 1000.
C27_Witness ==
    /\ IsMaxRank
    /\ LoneToken
    /\ WrittenNumeral(Get(doc)[1])
    /\ ~OverrideToken(Get(doc)[1])
    /\ ActualRank(Get(doc)[1]) = Some(900)
    /\ ret.out.val = 1000

\* C27 witness, second case: "naive" as a numeral, listed at rank 9000
\* (C1), contributes 10000.
C27_WitnessBuckets ==
    /\ IsMaxRank
    /\ LoneToken
    /\ WrittenNumeral(Get(doc)[1])
    /\ ~OverrideToken(Get(doc)[1])
    /\ ActualRank(Get(doc)[1]) = Some(9000)
    /\ ret.out.val = 10000

\* C27 witness, third case: "p.m." as a numeral, listed at rank 2500 and in
\* the override table, contributes nothing.
C27_WitnessOverride ==
    /\ IsMaxRank
    /\ LoneToken
    /\ WrittenNumeral(Get(doc)[1])
    /\ OverrideToken(Get(doc)[1])
    /\ ActualRank(Get(doc)[1]) = Some(2500)
    /\ ret.out.val = 0

\* ---------------------------------------------------------------- C28
\* The C2 row of a config has no active limit.
UnlimitedC2(config) ==
    /\ config["C2"].max_words_with_stops = -1
    /\ config["C2"].max_words_without_stops = -1
    /\ \A l \in Levels : config["C2"].level_limits[l] = -1

\* C28: under both presets (DEFAULT_DIFFICULTY_CONFIG and
\* APPROX_CEFR_LEVEL_CONFIG) the C2 row has no active limit, so for every
\* sentence the level loop of sentence_difficulty() returns at or before C2
\* and the return after the loop is never reached.
C28_PresetsNeverFallBack ==
    /\ UnlimitedC2(DEFAULT_DIFFICULTY_CONFIG)
    /\ UnlimitedC2(APPROX_CEFR_LEVEL_CONFIG)
    /\ (IsPreset /\ HasTokens) =>
          /\ ret.out.exit = "loop"
          /\ ret.out.val \in Levels
          /\ ret.out.exc = None

\* C28 witness: a sentence of 36 content words and a word of C2 level, over
\* every ceiling and limit of the rows A1 to C1 of the default preset, is
\* returned C2 from inside the loop.
C28_Witness ==
    /\ IsDefault
    /\ HasTokens
    /\ ret.out.words_with_stops > 30
    /\ ret.out.words_without_stops > 25
    /\ ret.out.cefr_counts["C2"] > 0
    /\ ret.out.val = "C2"
    /\ ret.out.exit = "loop"

\* ---------------------------------------------------------------- C30
\* Ceiling a admits every count that ceiling b admits (-1: no limit).
AtLeastAsLoose(a, b) == a = -1 \/ (b # -1 /\ a >= b)

\* Config a is pointwise at least as permissive as config b.
PointwiseAtLeastAsPermissive(a, b) ==
    \A l \in Levels :
        /\ AtLeastAsLoose(a[l].max_words_with_stops, b[l].max_words_with_stops)
        /\ AtLeastAsLoose(a[l].max_words_without_stops, b[l].max_words_without_stops)
        /\ \A m \in Levels :
              AtLeastAsLoose(a[l].level_limits[m], b[l].level_limits[m])

\* C30: APPROX_CEFR_LEVEL_CONFIG is pointwise at least as permissive as
\* DEFAULT_DIFFICULTY_CONFIG, so for every sentence the level returned under
\* APPROX is never harder than the level returned under DEFAULT.
C30_ApproxNeverHarder ==
    /\ PointwiseAtLeastAsPermissive(APPROX_CEFR_LEVEL_CONFIG, DEFAULT_DIFFICULTY_CONFIG)
    /\ NoHarder(sentence_difficulty("APPROX").val, sentence_difficulty(None).val)
    /\ (IsDifficulty /\ ret.arg = "APPROX") =>
          NoHarder(ret.out.val, sentence_difficulty(None).val)
    /\ IsDefault => NoHarder(sentence_difficulty("APPROX").val, ret.out.val)

\* C30 witness: a sentence of twelve words is A1 under APPROX (ceiling 12)
\* and harder under DEFAULT (ceiling 11).
C30_Witness ==
    /\ IsDifficulty
    /\ ret.arg = "APPROX"
    /\ HasTokens
    /\ ret.out.words_with_stops = 12
    /\ ret.out.val = "A1"
    /\ Easier("A1", sentence_difficulty(None).val)

\* C30 witness, second case: a sentence with one B2 token is A2 under APPROX
\* and B2 under DEFAULT.
C30_WitnessLimit ==
    /\ IsDefault
    /\ HasTokens
    /\ ret.out.cefr_counts["B2"] = 1
    /\ ret.out.val = "B2"
    /\ sentence_difficulty("APPROX").val = "A2"

\* ---------------------------------------------------------------- C26
IsRankCall == applied # <<>> /\ applied.op = "get_cefr_from_rank"

\* The reference bucketing of a rank.
ReferenceLevel(rank) ==
    CASE rank \in 1..500 -> "A1"
      [] rank \in 501..1000 -> "A2"
      [] rank \in 1001..2000 -> "B1"
      [] rank \in 2001..5000 -> "B2"
      [] rank \in 5001..10000 -> "C1"
      [] OTHER -> "C2"

\* C26: get_cefr_from_rank agrees with the reference bucketing for every rank
\* in 1..20001 and for None: None gives None, 1..500 A1, 501..1000 A2,
\* 1001..2000 B1, 2001..5000 B2, 5001..10000 C1, above 10000 C2; and the
\* mapping is monotone: the next rank never gives an easier level.
C26_RankBuckets ==
    IsRankCall =>
        IF IsNothing(applied.rank)
        THEN applied.out = None
        ELSE /\ applied.out = ReferenceLevel(Get(applied.rank))
             /\ NoHarder(applied.out, applied.next_out)

\* C26 witness: rank 5000, in the second of the two B2 bands of the code, is
\* B2 and the rank after it C1.
C26_Witness ==
    /\ IsRankCall
    /\ applied.rank = Some(5000)
    /\ applied.out = "B2"
    /\ applied.next_out = "C1"

\* ---------------------------------------------------------------- C29
IsLevelLoop == applied # <<>> /\ applied.op = "level_loop"

\* C29: the level selector is monotone in the sentence metrics: for any
\* config and any two sentences where the word count with function words, the
\* count without them and each of the six tallies of the first are at most
\* those of the second, the level returned for the first is never harder than
\* the level returned for the second.  Stated for a second sentence that has
\* one more in one of the counts; any two sentences ordered in this way are
\* joined by such steps.
C29_SelectorMonotone ==
    (IsLevelLoop /\ applied.out.exc = None) =>
        /\ applied.before.exc = None
        /\ NoHarder(applied.before.val, applied.out.val)

\* C29 witness: under the default config a twelfth word turns A1 into A2.
C29_Witness ==
    /\ IsLevelLoop
    /\ applied.config = None
    /\ applied.words_with_stops = 12
    /\ applied.before.val = "A1"
    /\ applied.out.val = "A2"

\* C29 witness, second case: under the caller's config of unordered rows a
\* second C2 token turns A1 into the C2 of the fallback.
C29_WitnessTally ==
    /\ IsLevelLoop
    /\ applied.config = "CUSTOM"
    /\ applied.cefr_counts["C2"] = 1
    /\ Easier(applied.before.val, applied.out.val)

====
